---- MODULE Spec2Model ----
(***************************************************************************)
(* node-network-tab: the interception engine (src/src/interceptor.ts) and  *)
(* the request log store (src/unnamed/part_005, imported as ./store.js).   *)
(*                                                                         *)
(* SpecStore drives the store with many request-start events, clear() and  *)
(* raw lifecycle events: it is the specification of the capacity claims.   *)
(***************************************************************************)
EXTENDS Integers, Sequences, FiniteSets, TLC

(***************************************************************************)
(* Program constants and model bounds                                      *)
(***************************************************************************)
\* store.ts: const MAX_LOGS = 50
MAX_LOGS == 50

\* number of intercepted calls a behaviour of SpecStore may make
MaxRequests == 52
\* number of body chunks the caller writes to a request
MaxWrites == 2
\* number of chunks a response delivers
MaxChunks == 2
\* number of consumers the caller attaches to a response
MaxConsumers == 3
\* number of intercepted calls a behaviour of SpecNotify may make
MaxSnapshots == 2
\* number of startInterceptor/stopInterceptor calls a behaviour may make
MaxInstallCalls == 4
\* number of frames the viewers send to the IPC server, truncated ones included
MaxInbound == 2
\* number of frames the IPC server writes to one viewer
MaxFrames == 3
\* number of replay frames dispatched
MaxReplays == 1
\* the call shapes tried for one target
MaxShapes == 2

(***************************************************************************)
(* Values                                                                  *)
(***************************************************************************)
\* RequestStatus = number | "PENDING" | "ERROR"
Pending == [tag |-> "PENDING"]
ErrorStatus == [tag |-> "ERROR"]
Code(n) == [tag |-> "code", code |-> n]

\* an optional field (error?, timing?, size?) is <<>> when absent, <<v>> when set
Absent == <<>>
Present(v) == <<v>>

\* the last element of a non-empty sequence (Array.prototype.pop's result)
Last(s) == s[Len(s)]
\* the sequence without its last element (what pop() leaves)
Front(s) == SubSeq(s, 1, Len(s) - 1)
\* the set of elements of a sequence
Range(s) == {s[i] : i \in DOMAIN s}

\* Set.prototype.add and Set.prototype.delete, the set kept in insertion order
SetAdd(s, x) == IF x \in Range(s) THEN s ELSE Append(s, x)
SetDelete(s, x) == SelectSeq(s, LAMBDA y : y # x)

VARIABLES
  \* ---- Request Log Store (store.ts) ----
  logs,         \* RequestStore.logs: Map<string, RequestLog>, a function id -> record
  orderedIds,   \* RequestStore.orderedIds: ids, most recent first
  isListening,  \* RequestStore.isListening: the store is attached to the emitter
  listeners,    \* RequestStore.listeners: Set<StoreListener>, in insertion order
  handles,      \* the listeners for which subscribe returned an unsubscribe handle
  \* ---- IPC server (ipc.ts) ----
  sockets,      \* startIpcServer: const sockets = new Set<net.Socket>(), the
                \* viewers in the broadcast set, in insertion order
  frames,       \* per viewer: the frames written to its socket, in order
  conn,         \* per viewer: its connection: new, open, closed (by the viewer),
                \* destroyed (by the server's close())
  wire,         \* per viewer: what it has sent that has not arrived yet
  nSent,        \* the number of frames the viewers have sent
  buffer,       \* per viewer: let buffer = "" of its socket's data handler
  delivered,    \* per viewer: everything its data events have carried so far
  replays,      \* per viewer: the number of replayRequest calls made for it
  client,       \* per viewer: its connectToIpc call: what readIpcInfo saw, the
                \* sockets opened, the errors reported
  \* ---- processes and the discovery record (ipc.ts) ----
  procs,        \* per process id: the state of its IPC server and the record
                \* its close() has read
  ipcFile,      \* the content of os.tmpdir()/node-network-tab.json
  \* ---- request normalisation and replay ----
  normalized,   \* the request-start fields computed for one target, per call
                \* shape tried so far
  issued,       \* the requests replayRequest has handed to http/https.request
  replayed,     \* history: per replay, the record as it was when replayed
  \* ---- several exchanges at a time, timing, the viewer's RemoteStore ----
  closures,     \* per request id: the state of the closure of its intercepted
                \* call (requestBodyChunks, responseChunks) and where it is
  signals,      \* the socket events the engine's listeners of the exchange
                \* have run for: lookup, connect
  remote,       \* per viewer: let buffer of its data handler, RemoteStore.logs,
                \* and the listener calls RemoteStore.setLogs has made
  heard,        \* history, per viewer: the text the server's data handler has
                \* appended to its buffer so far
  \* ---- process-wide ----
  nextId,       \* the ids uuidv4() has handed out so far are 1 .. nextId-1
  now,          \* Date.now()
  thrower,      \* the event kind on which a further subscriber of
                \* interceptorEmitter throws ("none": no such subscriber)
  \* ---- interceptor state (interceptor.ts, module level) ----
  isIntercepting, \* let isIntercepting
  originals,      \* originalHttpRequest, originalHttpsRequest, originalHttpGet,
                  \* originalHttpsGet, originalFetch, by entry point name
  entryPoints,    \* http.request, https.request, http.get, https.get and
                  \* globalThis.fetch: the function in place under each name
  \* ---- the closure of one intercepted call (createInterceptor / fetch wrapper) ----
  pc,                 \* where the exchange is: idle, open, threw, fetching, fetchBody, done
  entry,              \* the patched entry point that was called
  callArgs,           \* the arguments of the call
  requestId,          \* const requestId = uuidv4()
  startTime,          \* const startTime = Date.now()
  timing,             \* const timing = {dnsStart, dnsEnd, tcpEnd, ttfbEnd, downloadEnd}
  requestBodyChunks,  \* const requestBodyChunks: Buffer[]
  responseChunks,     \* const responseChunks: Buffer[]
  totalBytesReceived, \* let totalBytesReceived
  \* ---- the underlying request and response (node:http) ----
  callerEnded,  \* the caller has called end() on the request
  res,          \* the response: none, open (response event fired), ended, aborted
  resListeners, \* the listeners registered on the response through the
                \* original on/once, in registration order
  nDelivered,   \* the number of chunks the response has emitted
  \* ---- what the caller and the original implementation observe ----
  forwarded,    \* the calls made to the original request/fetch function
  forwardedBody,\* the chunks passed to the original write/end
  origEnded,    \* the number of calls of the original end()
  callerResult, \* what the patched call gave the caller
  callbackCalls,\* how often the caller's response callback ran
  consumers,    \* the consumers the caller attached to the response, in order
  seen,         \* per consumer: what was delivered to it
  uncaught,     \* an exception escaped from a handler into the event loop
  \* ---- history ----
  emitted,      \* the events emitted for the exchange, in order
  calls,        \* the calls of store listeners made by the last store operation
                \* (subscribe, unsubscribe, clear, or the handling of emitted
                \* events), in order: [listener, logs]
  lastOp,       \* that last store operation, with the ids the store knew before it
  unsubscribed, \* the listeners whose unsubscribe handle was called since they
                \* were last subscribed
  pristine,     \* the entry points as they were before the first startInterceptor()
  installLog,   \* the calls of startInterceptor ("start") and stopInterceptor
                \* ("stop") made so far, in order
  startOrder,   \* ids whose request-start reached the store since the last
                \* clear(), in arrival order
  lastEvicted   \* the records the last addRequest removed, in removal order

storeVars == <<logs, orderedIds, isListening, listeners, handles, frames,
               calls, lastOp, unsubscribed>>
histVars == <<startOrder, lastEvicted>>
\* what no action of the store or of an exchange changes
installVars == <<isIntercepting, originals, entryPoints, pristine, installLog>>
ipcVars == <<conn, wire, nSent, buffer, delivered, replays, client, procs, ipcFile>>
furtherVars == <<closures, signals, remote, heard>>
auxVars == <<normalized, issued, replayed, furtherVars>>
fixedVars == <<thrower, sockets, installVars, ipcVars, auxVars>>
exchangeVars ==
  <<pc, entry, callArgs, requestId, startTime, timing, requestBodyChunks,
    responseChunks, totalBytesReceived, callerEnded, res, resListeners,
    nDelivered, forwarded, forwardedBody, origEnded, callerResult,
    callbackCalls, consumers, seen, uncaught, emitted>>
vars == <<storeVars, nextId, now, fixedVars, exchangeVars, startOrder,
          lastEvicted>>

(***************************************************************************)
(* Request Log Store                                                       *)
(***************************************************************************)
\* RequestStore.getLogs: orderedIds.map(id => logs.get(id)).filter(Boolean)
getLogs(st) ==
  LET known == SelectSeq(st.orderedIds, LAMBDA id : id \in DOMAIN st.logs)
  IN  [i \in 1..Len(known) |-> st.logs[known[i]]]

\* the while loop of addRequest: pop the oldest id while over the limit
RECURSIVE EnforceMaxLimit(_)
EnforceMaxLimit(st) ==
  IF Len(st.orderedIds) > MAX_LOGS
  THEN LET oldId == Last(st.orderedIds)
       IN  EnforceMaxLimit(
             [logs |-> [i \in DOMAIN st.logs \ {oldId} |-> st.logs[i]],
              orderedIds |-> Front(st.orderedIds)])
  ELSE st

\* the record addRequest builds for a request-start event
NewLog(event) ==
  [id |-> event.id,
   request |-> event.request,
   protocol |-> event.protocol,
   status |-> Pending,
   duration |-> 0,
   startTime |-> event.startTime,
   reqBody |-> <<>>,
   resHeaders |-> Absent,
   resBody |-> <<>>,
   error |-> Absent,
   timing |-> Absent,
   size |-> Absent]

\* addRequest with the limit test off by one (>= MAX_LOGS + 2 before it pops)
addRequest_OffByOne(st, event) ==
  LET ids == <<event.id>> \o st.orderedIds
      all == (event.id :> NewLog(event)) @@ st.logs
  IN  IF Len(ids) > MAX_LOGS + 1
      THEN [logs |-> [i \in DOMAIN all \ {Last(ids)} |-> all[i]],
            orderedIds |-> Front(ids)]
      ELSE [logs |-> all, orderedIds |-> ids]

\* addRequest evicting with splice(1, 1) instead of pop(): the newest old
\* record goes, not the oldest
addRequest_EvictsNewest(st, event) ==
  LET ids == <<event.id>> \o st.orderedIds
      all == (event.id :> NewLog(event)) @@ st.logs
  IN  IF Len(ids) > MAX_LOGS
      THEN [logs |-> [i \in DOMAIN all \ {ids[2]} |-> all[i]],
            orderedIds |-> <<ids[1]>> \o SubSeq(ids, 3, Len(ids))]
      ELSE [logs |-> all, orderedIds |-> ids]

\* RequestStore.addRequest
addRequest(st, event) ==
  LET log == NewLog(event)
  IN  EnforceMaxLimit(
        [logs |-> (event.id :> log) @@ st.logs,
         orderedIds |-> <<event.id>> \o st.orderedIds])

\* the update handlers: look the record up, no-op when the id is unknown
\* updateRequestBody that writes the body into every record of the store
updateRequestBody_EveryRecord(st, event) ==
  IF event.id \in DOMAIN st.logs
  THEN [st EXCEPT !.logs = [i \in DOMAIN st.logs |->
                             [st.logs[i] EXCEPT !.reqBody = event.body]]]
  ELSE st

updateRequestBody(st, event) ==
  IF event.id \in DOMAIN st.logs
  THEN [st EXCEPT !.logs[event.id].reqBody = event.body]
  ELSE st

updateResponseHeaders(st, event) ==
  IF event.id \in DOMAIN st.logs
  THEN [st EXCEPT !.logs[event.id].status = Code(event.statusCode),
                  !.logs[event.id].resHeaders = Present(event.headers)]
  ELSE st

\* completeResponse that also moves the record to the head of the list
completeResponse_MovesToFront(st, event) ==
  IF event.id \in DOMAIN st.logs
  THEN [logs |-> [st.logs EXCEPT ![event.id].resBody = event.body,
                                 ![event.id].duration = event.duration],
        orderedIds |-> <<event.id>> \o SetDelete(st.orderedIds, event.id)]
  ELSE st

completeResponse(st, event) ==
  IF event.id \in DOMAIN st.logs
  THEN [st EXCEPT !.logs[event.id].resBody = event.body,
                  !.logs[event.id].duration = event.duration]
  ELSE st

\* handleError that records the status and the duration but not the message
handleError_NoMessage(st, event) ==
  IF event.id \in DOMAIN st.logs
  THEN [st EXCEPT !.logs[event.id].status = ErrorStatus,
                  !.logs[event.id].duration = event.duration]
  ELSE st

handleError(st, event) ==
  IF event.id \in DOMAIN st.logs
  THEN [st EXCEPT !.logs[event.id].status = ErrorStatus,
                  !.logs[event.id].error = Present(event.error),
                  !.logs[event.id].duration = event.duration]
  ELSE st

updateTiming(st, event) ==
  IF event.id \in DOMAIN st.logs
  THEN [st EXCEPT !.logs[event.id].timing =
          Present([dns |-> event.dns, tcp |-> event.tcp, ttfb |-> event.ttfb,
                   download |-> event.download, total |-> event.total])]
  ELSE st

updateSize(st, event) ==
  IF event.id \in DOMAIN st.logs
  THEN [st EXCEPT !.logs[event.id].size =
          Present([transferred |-> event.transferred,
                   resource |-> event.resource,
                   encoding |-> event.encoding])]
  ELSE st

\* clear that empties the id list and leaves the map as it is
clear_KeepsMap(st) == [logs |-> st.logs, orderedIds |-> <<>>]

\* RequestStore.clear
clear(st) == [logs |-> <<>>, orderedIds |-> <<>>]

\* the listeners a behaviour subscribes through subscribe(): the dashboard's,
\* a second one, and one that throws whenever it is called; the listener of
\* the IPC server ("ipc") is subscribed by startIpcServer
StoreListeners == {"ui", "panel", "faulty"}
Throwing(l) == l = "faulty"

\* the call of one listener with a snapshot
ListenerCall(l, snapshot) == [listener |-> l, logs |-> snapshot]

\* notifyListeners without the try/catch: the first listener that throws ends
\* the loop
notifyListeners_NoCatch(ls, st) ==
  LET throwing == {i \in DOMAIN ls : Throwing(ls[i])}
      stop == IF throwing = {} THEN Len(ls)
              ELSE CHOOSE i \in throwing : \A j \in throwing : i <= j
  IN  [i \in 1..stop |-> ListenerCall(ls[i], getLogs(st))]

\* notifyListeners: every listener is called with getLogs(); what a listener
\* throws is swallowed
notifyListeners(ls, st) ==
  [i \in 1..Len(ls) |-> ListenerCall(ls[i], getLogs(st))]

\* the unsubscribe handle that deletes nothing
unsubscribeHandle_Keeps(ls, l) == ls

\* the function subscribe returns: listeners.delete(listener)
unsubscribeHandle(ls, l) == SetDelete(ls, l)

\* attachInterceptorListeners: one handler per event kind
StoreHandle(st, event) ==
  CASE event.kind = "request-start"     -> addRequest(st, event)
    [] event.kind = "request-body"      -> updateRequestBody(st, event)
    [] event.kind = "response-headers"  -> updateResponseHeaders(st, event)
    [] event.kind = "response-complete" -> completeResponse(st, event)
    [] event.kind = "request-error"     -> handleError(st, event)
    [] event.kind = "timing-update"     -> updateTiming(st, event)
    [] event.kind = "size-update"       -> updateSize(st, event)

\* a store whose handlers are on the emitter from its construction
Deliver_FromConstruction(st, listening, event) == StoreHandle(st, event)

\* interceptorEmitter.emit as the store sees it: handlers exist once attached
Deliver(st, listening, event) ==
  IF listening THEN StoreHandle(st, event) ELSE st

\* every handler notifies whatever the event
Notified_Always(st, event) == TRUE

\* the handler of the event reaches notifyListeners: addRequest always, the
\* update handlers inside if (log)
Notified(st, event) ==
  event.kind = "request-start" \/ event.id \in DOMAIN st.logs

\* the listener calls made while one emitted event is handled
CallsFor(st, listening, ls, event) ==
  IF listening /\ Notified(st, event)
  THEN notifyListeners(ls, StoreHandle(st, event))
  ELSE <<>>

\* the listener calls made while a sequence of emitted events is handled
RECURSIVE CallsForAll(_, _, _, _)
CallsForAll(st, listening, ls, evs) ==
  IF evs = <<>> THEN <<>>
  ELSE CallsFor(st, listening, ls, Head(evs)) \o
       CallsForAll(Deliver(st, listening, Head(evs)), listening, ls, Tail(evs))

\* the listener of startIpcServer: broadcast an update frame to every socket
\* of the broadcast set
UpdateFrames(cs) ==
  LET own == SelectSeq(cs, LAMBDA c : c.listener = "ipc")
  IN  [i \in 1..Len(own) |-> [type |-> "update", logs |-> own[i].logs]]

broadcast(fr, socks, cs) ==
  [v \in DOMAIN fr |->
     IF v \in Range(socks) THEN fr[v] \o UpdateFrames(cs) ELSE fr[v]]

Store == [logs |-> logs, orderedIds |-> orderedIds]

\* a store operation
Op(op, l, evs) ==
  [op |-> op, listener |-> l, events |-> evs, before |-> DOMAIN logs]

\* the listeners were called as cs says, the IPC listener broadcasting
ListenersCalled(cs) ==
  /\ calls' = cs
  /\ frames' = broadcast(frames, sockets, cs)

\* history: the records a store transition removed, oldest position first
Evicted(before, after) ==
  LET gone == SelectSeq(before.orderedIds, LAMBDA id : id \notin DOMAIN after.logs)
  IN  [i \in 1..Len(gone) |-> before.logs[gone[Len(gone) + 1 - i]]]

(***************************************************************************)
(* Request normalisation (interceptor.ts)                                  *)
(***************************************************************************)
\* A string is written as the sequence of its pieces, so that concatenation
\* is \o and the empty string is <<>>.  A port is a number or a string, which
\* !== tells apart; an absent port is the empty string.
PortNum(t) == [num |-> TRUE, text |-> t]
PortStr(t) == [num |-> FALSE, text |-> t]
PortAbsent == PortStr("")
DefaultPortText(protocol) == IF protocol = "https" THEN "443" ELSE "80"

\* the targets requests are addressed to
Targets ==
  [protocol : {"http", "https"}, hostname : {"api.test"}, port : {"", "8080"},
   pathname : {"/", "/a"}, search : {"", "?x"}]

\* the path and query string of a target
PathOf(t) == <<t.pathname>> \o (IF t.search = "" THEN <<>> ELSE <<t.search>>)

\* the serialisation of a target (URL.prototype.href)
Href(t) ==
  <<t.protocol, "://", t.hostname>> \o
  (IF t.port = "" THEN <<>> ELSE <<":", t.port>>) \o PathOf(t)

\* the ways a caller writes the target as a string: its serialisation, the
\* same with the default port spelled out, and, for the root path, without
\* the trailing slash
UrlTexts(t) ==
  {Href(t)} \cup
  (IF t.port = ""
   THEN {<<t.protocol, "://", t.hostname, ":", DefaultPortText(t.protocol)>> \o PathOf(t)}
   ELSE {}) \cup
  (IF t.pathname = "/" /\ t.search = ""
   THEN {<<t.protocol, "://", t.hostname>> \o
         (IF t.port = "" THEN <<>> ELSE <<":", t.port>>)}
   ELSE {})

\* a string that is no absolute URL
RelativeText == <<"/a">>

\* new URL(text) throws
InvalidUrl == [valid |-> FALSE]

\* new URL(text): protocol without the colon, hostname, port (empty when it
\* is the protocol's default), host, pathname ("/" when the text has none) and
\* search
ParseUrl(text) ==
  IF Len(text) < 3 \/ text[2] # "://" THEN InvalidUrl
  ELSE LET rest     == SubSeq(text, 4, Len(text))
           given    == IF rest # <<>> /\ rest[1] = ":" THEN rest[2] ELSE ""
           after    == IF given = "" THEN rest ELSE SubSeq(rest, 3, Len(rest))
           port     == IF given = DefaultPortText(text[1]) THEN "" ELSE given
           pathname == IF after # <<>> /\ after[1] \in {"/", "/a"} THEN after[1] ELSE "/"
           search   == IF after # <<>> /\ Last(after) = "?x" THEN "?x" ELSE ""
       IN  [valid |-> TRUE, protocol |-> text[1], hostname |-> text[3],
            port |-> port,
            host |-> <<text[3]>> \o (IF port = "" THEN <<>> ELSE <<":", port>>),
            pathname |-> pathname, search |-> search]

\* http.RequestOptions: an absent field is the empty string
NoOptions ==
  [hostname |-> <<>>, host |-> <<>>, port |-> PortAbsent, path |-> <<>>,
   method |-> "", headers |-> ""]

\* parseRequestArgs, first argument a URL string or a URL object
urlOptions(urlObj, protocol) ==
  [hostname |-> <<urlObj.hostname>>,
   host     |-> <<>>,
   port     |-> IF urlObj.port # "" THEN PortStr(urlObj.port)
                ELSE PortNum(DefaultPortText(protocol)),
   path     |-> <<urlObj.pathname>> \o
                (IF urlObj.search = "" THEN <<>> ELSE <<urlObj.search>>),
   method   |-> "GET",
   headers  |-> ""]

\* { ...options, ...args[1] }
spread(options, second) ==
  [hostname |-> IF second.hostname = <<>> THEN options.hostname ELSE second.hostname,
   host     |-> IF second.host = <<>> THEN options.host ELSE second.host,
   port     |-> IF second.port = PortAbsent THEN options.port ELSE second.port,
   path     |-> IF second.path = <<>> THEN options.path ELSE second.path,
   method   |-> IF second.method = "" THEN options.method ELSE second.method,
   headers  |-> IF second.headers = "" THEN options.headers ELSE second.headers]

\* String.prototype.toUpperCase on the method names used here
toUpperCase(m) ==
  CASE m \in {"get", "GET"}   -> "GET"
    [] m \in {"post", "POST"} -> "POST"
    [] OTHER                  -> m

\* options.hostname || options.host || "localhost"
hostOf(options) ==
  IF options.hostname # <<>> THEN options.hostname
  ELSE IF options.host # <<>> THEN options.host ELSE <<"localhost">>

\* buildUrl
buildUrl(options, protocol) ==
  <<protocol, "://">> \o hostOf(options) \o
  (IF /\ options.port.text # ""
      /\ options.port # PortNum("80")
      /\ options.port # PortNum("443")
   THEN <<":", options.port.text>> ELSE <<>>) \o
  (IF options.path = <<>> THEN <<"/">> ELSE options.path)

\* the fields of the request-start event interceptedRequest emits
interceptedStart(options, protocol) ==
  [method   |-> toUpperCase(IF options.method = "" THEN "GET" ELSE options.method),
   url      |-> buildUrl(options, protocol),
   protocol |-> protocol,
   host     |-> hostOf(options),
   path     |-> IF options.path = <<>> THEN <<"/">> ELSE options.path,
   headers  |-> options.headers]

\* the fields of the request-start event the fetch wrapper emits for the url
\* text and the method and headers it found in input and init
fetchStart(url, method, headers) ==
  LET urlObj == ParseUrl(url)
  IN  [method   |-> toUpperCase(IF method = "" THEN "GET" ELSE method),
       url      |-> url,
       protocol |-> IF urlObj.valid /\ urlObj.protocol = "https" THEN "https" ELSE "http",
       host     |-> IF urlObj.valid THEN urlObj.host ELSE <<"unknown">>,
       path     |-> IF urlObj.valid
                    THEN <<urlObj.pathname>> \o
                         (IF urlObj.search = "" THEN <<>> ELSE <<urlObj.search>>)
                    ELSE <<"/">>,
       headers  |-> headers]

(***************************************************************************)
(* Events                                                                  *)
(***************************************************************************)
\* request-start carrying the fields start (method, url, host, path, headers)
StartEventFor(id, t, start) ==
  [kind |-> "request-start", id |-> id, startTime |-> t,
   protocol |-> start.protocol, request |-> start]

\* the request of the exchanges whose target plays no role: a GET by URL string
PlainRequest(protocol) ==
  interceptedStart(urlOptions(ParseUrl(<<protocol, "://", "api.test", "/a">>), protocol),
                   protocol)

StartEvent(id, t, protocol) == StartEventFor(id, t, PlainRequest(protocol))
BodyEvent(id, body) == [kind |-> "request-body", id |-> id, body |-> body]
HeadersEvent(id, code) ==
  [kind |-> "response-headers", id |-> id, statusCode |-> code, headers |-> "H"]
CompleteEvent(id, body, d) ==
  [kind |-> "response-complete", id |-> id, body |-> body, duration |-> d]
ErrorEvent(id, msg, d) ==
  [kind |-> "request-error", id |-> id, error |-> msg, duration |-> d]
TimingEvent(id, dns, tcp, ttfb, download, total) ==
  [kind |-> "timing-update", id |-> id, dns |-> dns, tcp |-> tcp, ttfb |-> ttfb,
   download |-> download, total |-> total]
SizeEvent(id, transferred, resource, encoding) ==
  [kind |-> "size-update", id |-> id, transferred |-> transferred,
   resource |-> resource, encoding |-> encoding]

LifecycleKinds == {"request-body", "response-headers", "response-complete",
                   "request-error", "timing-update", "size-update"}

\* a lifecycle event of the given kind with a representative payload
RawEvent(kind, id) ==
  CASE kind = "request-body"      -> BodyEvent(id, <<1>>)
    [] kind = "response-headers"  -> HeadersEvent(id, 200)
    [] kind = "response-complete" -> CompleteEvent(id, <<1>>, 1)
    [] kind = "request-error"     -> ErrorEvent(id, "E", 1)
    [] kind = "timing-update"     -> TimingEvent(id, 0, 0, 0, 1, 1)
    [] kind = "size-update"       -> SizeEvent(id, 1, 1, "none")

(***************************************************************************)
(* startInterceptor / stopInterceptor                                      *)
(***************************************************************************)
EntryNames == {"http.request", "https.request", "http.get", "https.get", "fetch"}

\* what can be in place under an entry point name before the first start: the
\* runtime's own function, a function another library put there, or, for
\* globalThis.fetch on a runtime without fetch, nothing
Native(n) == [kind |-> "native", name |-> n]
Foreign(n) == [kind |-> "foreign", name |-> n]
NoFunction == [kind |-> "undefined", name |-> "none"]
\* null
Null == [kind |-> "null", name |-> "none"]

\* the functions startInterceptor puts in place
WrapperKinds == {"interceptedRequest", "patchedGet", "patchedFetch"}
\* createInterceptor(originalFn, protocol)
Interceptor(originalFn) == [kind |-> "interceptedRequest", of |-> originalFn]
\* the patched get, which calls http.request / https.request of the moment
PatchedGet(n) == [kind |-> "patchedGet", name |-> n]
\* the patched fetch, which calls originalFetch of the moment
PatchedFetch == [kind |-> "patchedFetch", name |-> "fetch"]

InstallState ==
  [isIntercepting |-> isIntercepting, originals |-> originals,
   entryPoints |-> entryPoints]

\* the module state before any start, over the given entry points
NotStarted(eps) ==
  [isIntercepting |-> FALSE, originals |-> [n \in EntryNames |-> Null],
   entryPoints |-> eps]

\* the originals saved and the wrappers put in place by startInterceptor
SaveAndPatch(s) ==
  LET saved == [n \in EntryNames |->
                  IF n = "fetch" /\ s.entryPoints[n].kind = "undefined"
                  THEN s.originals[n] ELSE s.entryPoints[n]]
      patched == [n \in EntryNames |->
                    CASE n \in {"http.request", "https.request"} ->
                           Interceptor(saved[n])
                      [] n \in {"http.get", "https.get"} -> PatchedGet(n)
                      [] n = "fetch" ->
                           IF saved[n] # Null THEN PatchedFetch
                           ELSE s.entryPoints[n]]
  IN  [isIntercepting |-> TRUE, originals |-> saved, entryPoints |-> patched]

\* startInterceptor without the test of isIntercepting
startInterceptor_NoGuard(s) == SaveAndPatch(s)

\* startInterceptor
startInterceptor(s) == IF s.isIntercepting THEN s ELSE SaveAndPatch(s)

\* stopInterceptor that leaves globalThis.fetch patched
stopInterceptor_SkipsFetch(s) ==
  IF ~s.isIntercepting THEN s
  ELSE [isIntercepting |-> FALSE,
        originals |-> [n \in EntryNames |-> Null],
        entryPoints |-> [n \in EntryNames |->
                           IF s.originals[n] # Null /\ n # "fetch"
                           THEN s.originals[n] ELSE s.entryPoints[n]]]

\* stopInterceptor
stopInterceptor(s) ==
  IF ~s.isIntercepting THEN s
  ELSE [isIntercepting |-> FALSE,
        originals |-> [n \in EntryNames |-> Null],
        entryPoints |-> [n \in EntryNames |->
                           IF s.originals[n] # Null THEN s.originals[n]
                           ELSE s.entryPoints[n]]]

\* isInterceptorActive
isInterceptorActive(s) == s.isIntercepting

\* the module state becomes s
InstallBecomes(s) ==
  /\ isIntercepting' = s.isIntercepting
  /\ originals' = s.originals
  /\ entryPoints' = s.entryPoints

\* the interceptor was started once, on the runtime's own functions
Started ==
  /\ pristine = [n \in EntryNames |-> Native(n)]
  /\ LET s == startInterceptor(NotStarted([n \in EntryNames |-> Native(n)]))
     IN  /\ isIntercepting = s.isIntercepting
         /\ originals = s.originals
         /\ entryPoints = s.entryPoints
  /\ installLog = <<"start">>

(***************************************************************************)
(* SpecStore: the store under load                                         *)
(***************************************************************************)
\* the closure variables before any call
NoExchange ==
  /\ pc = "idle"
  /\ entry = "none"
  /\ callArgs = <<>>
  /\ requestId = 0
  /\ startTime = 0
  /\ timing = [dnsStart |-> 0, dnsEnd |-> 0, tcpEnd |-> 0, ttfbEnd |-> 0,
               downloadEnd |-> 0]
  /\ requestBodyChunks = <<>>
  /\ responseChunks = <<>>
  /\ totalBytesReceived = 0
  /\ callerEnded = FALSE
  /\ res = "none"
  /\ resListeners = <<>>
  /\ nDelivered = 0
  /\ forwarded = <<>>
  /\ forwardedBody = <<>>
  /\ origEnded = 0
  /\ callerResult = "none"
  /\ callbackCalls = 0
  /\ consumers = <<>>
  /\ seen = <<>>
  /\ uncaught = FALSE
  /\ emitted = <<>>

\* the viewers that may connect to the IPC server
Viewers == {"v1", "v2"}

\* the processes that run an IPC server; Self is the one whose store and
\* connections are followed
Pids == {1, 2, 3}
Self == 1

\* no discovery record (no file, or a file readIpcInfo rejects)
NoRecord == [pid |-> 0, port |-> "none"]

\* a viewer that has not called connectToIpc
NoClient ==
  [state |-> "idle", saw |-> NoRecord, sawAlive |-> FALSE, target |-> 0,
   sockets |-> 0, onError |-> 0, thrown |-> FALSE]

\* a viewer process before connectToIpc: new RemoteStore(), and the buffer of
\* the data handler; handled is the history of the record lists handed to
\* onLogs, arrived the number of bytes its socket has delivered
NewRemote ==
  [buffer |-> <<>>, logs |-> <<>>, listeners |-> <<>>, calls |-> <<>>,
   handled |-> <<>>, arrived |-> 0]

InitIpc ==
  /\ sockets = <<>>
  /\ frames = [v \in Viewers |-> <<>>]
  /\ conn = [v \in Viewers |-> "new"]
  /\ wire = [v \in Viewers |-> <<>>]
  /\ nSent = 0
  /\ buffer = [v \in Viewers |-> <<>>]
  /\ delivered = [v \in Viewers |-> <<>>]
  /\ replays = [v \in Viewers |-> 0]
  /\ client = [v \in Viewers |-> NoClient]
  /\ procs = [p \in Pids |-> [state |-> "idle", info |-> NoRecord]]
  /\ ipcFile = NoRecord

InitStore ==
  /\ InitIpc
  /\ normalized = <<>>
  /\ issued = <<>>
  /\ replayed = <<>>
  /\ closures = <<>>
  /\ signals = {}
  /\ remote = [v \in Viewers |-> NewRemote]
  /\ heard = [v \in Viewers |-> <<>>]
  /\ logs = <<>>
  /\ orderedIds = <<>>
  /\ isListening = FALSE
  /\ listeners = <<>>
  /\ handles = {}
  /\ calls = <<>>
  /\ lastOp = [op |-> "none", listener |-> "none", events |-> <<>>, before |-> {}]
  /\ unsubscribed = {}
  /\ nextId = 1
  /\ now = 0
  /\ startOrder = <<>>
  /\ lastEvicted = <<>>

\* after construction and startInterceptor(), with the store as the only
\* subscriber of the emitter
Init ==
  /\ InitStore
  /\ thrower = "none"
  /\ Started
  /\ NoExchange

\* RequestStore.subscribe(l): add the listener, attach to the emitter if not
\* attached yet, call the listener with the current snapshot, return the
\* unsubscribe handle (none is returned when the listener throws)
SubscribeListener(l) ==
  /\ listeners' = SetAdd(listeners, l)
  /\ isListening' = TRUE
  /\ ListenersCalled(<<ListenerCall(l, getLogs(Store))>>)
  /\ handles' = IF Throwing(l) THEN handles ELSE handles \cup {l}
  /\ unsubscribed' = unsubscribed \ {l}
  /\ lastOp' = Op("subscribe", l, <<>>)
  /\ UNCHANGED <<logs, orderedIds, nextId, now, fixedVars, exchangeVars, histVars>>

\* RequestStore.subscribe, first call, by the dashboard
Subscribe ==
  /\ ~isListening
  /\ SubscribeListener("ui")

\* the store after the event, as primed variables
StoreBecomes(st) ==
  /\ logs' = st.logs
  /\ orderedIds' = st.orderedIds

\* an intercepted call: request-start with a fresh id; its later events are
\* driven by LifecycleEvent
StartWithin(max) ==
  /\ nextId <= max
  /\ LET ev == StartEvent(nextId, now, "http")
         st == Deliver(Store, isListening, ev)
     IN  /\ StoreBecomes(st)
         /\ startOrder' = IF isListening THEN Append(startOrder, nextId) ELSE startOrder
         /\ lastEvicted' = Evicted(Store, st)
         /\ ListenersCalled(CallsFor(Store, isListening, listeners, ev))
         /\ lastOp' = Op("emit", "none", <<ev>>)
  /\ nextId' = nextId + 1
  /\ UNCHANGED <<isListening, listeners, handles, unsubscribed, now, fixedVars,
                 exchangeVars>>

BackgroundStart == StartWithin(MaxRequests)

\* the request SpecStore follows through its lifecycle: the first one, which is
\* the one a full store evicts first; its events arrive in any order, also
\* after it was evicted or cleared
EventTargets == {1} \cap (1..(nextId - 1))

\* an event of one of the kinds reaches the store
LifecycleOf(kinds) ==
  \E kind \in kinds, id \in EventTargets :
    /\ StoreBecomes(Deliver(Store, isListening, RawEvent(kind, id)))
    /\ ListenersCalled(CallsFor(Store, isListening, listeners, RawEvent(kind, id)))
    /\ lastOp' = Op("emit", "none", <<RawEvent(kind, id)>>)
    /\ UNCHANGED <<isListening, listeners, handles, unsubscribed, nextId, now,
                   fixedVars, exchangeVars, histVars>>

LifecycleEvent == LifecycleOf(LifecycleKinds)

\* RequestStore.clear, called by the UI
Clear ==
  /\ StoreBecomes(clear(Store))
  /\ startOrder' = <<>>
  /\ lastEvicted' = <<>>
  /\ ListenersCalled(notifyListeners(listeners, clear(Store)))
  /\ lastOp' = Op("clear", "none", <<>>)
  /\ UNCHANGED <<isListening, listeners, handles, unsubscribed, nextId, now,
                 fixedVars, exchangeVars>>

NextStore == Subscribe \/ BackgroundStart \/ LifecycleEvent \/ Clear

SpecStore == Init /\ [][NextStore]_vars

(***************************************************************************)
(* SpecInstall: startInterceptor() and stopInterceptor() called in any     *)
(* order, on a runtime whose entry points are its own or were replaced by  *)
(* another library before, with or without a global fetch                  *)
(***************************************************************************)
\* the entry points of a runtime, given what is in place under each name
PristineOf(k) ==
  [n \in EntryNames |->
     CASE k[n] = "native" -> Native(n)
       [] k[n] = "foreign" -> Foreign(n)
       [] OTHER -> NoFunction]

InitInstall ==
  /\ InitStore
  /\ thrower = "none"
  /\ NoExchange
  /\ \E k \in [EntryNames -> {"native", "foreign", "undefined"}] :
       /\ \A n \in EntryNames : k[n] = "undefined" => n = "fetch"
       /\ pristine = PristineOf(k)
  /\ isIntercepting = FALSE
  /\ originals = [n \in EntryNames |-> Null]
  /\ entryPoints = pristine
  /\ installLog = <<>>

\* a call of startInterceptor()
StartInterceptor ==
  /\ Len(installLog) < MaxInstallCalls
  /\ InstallBecomes(startInterceptor(InstallState))
  /\ installLog' = Append(installLog, "start")
  /\ UNCHANGED <<storeVars, histVars, nextId, now, thrower, sockets, pristine,
                 ipcVars, auxVars, exchangeVars>>

\* a call of stopInterceptor()
StopInterceptor ==
  /\ Len(installLog) < MaxInstallCalls
  /\ InstallBecomes(stopInterceptor(InstallState))
  /\ installLog' = Append(installLog, "stop")
  /\ UNCHANGED <<storeVars, histVars, nextId, now, thrower, sockets, pristine,
                 ipcVars, auxVars, exchangeVars>>

NextInstall == StartInterceptor \/ StopInterceptor

SpecInstall == InitInstall /\ [][NextInstall]_vars

(***************************************************************************)
(* SpecNotify: the store and its listeners: any listeners subscribe and    *)
(* unsubscribe, in any order and repeatedly, between a few requests        *)
(***************************************************************************)
\* RequestStore.subscribe by any listener, subscribed already or not
SubscribeAny == \E l \in StoreListeners : SubscribeListener(l)

\* a call of an unsubscribe handle subscribe returned, at any later time
Unsubscribe ==
  \E l \in handles :
    /\ listeners' = unsubscribeHandle(listeners, l)
    /\ unsubscribed' = unsubscribed \cup {l}
    /\ ListenersCalled(<<>>)
    /\ lastOp' = Op("unsubscribe", l, <<>>)
    /\ UNCHANGED <<logs, orderedIds, isListening, handles, nextId, now, fixedVars,
                   exchangeVars, histVars>>

\* an intercepted call, of the few SpecNotify makes
FewStarts == StartWithin(MaxSnapshots)

NextNotify ==
  SubscribeAny \/ Unsubscribe \/ FewStarts \/ LifecycleEvent \/ Clear

SpecNotify == Init /\ [][NextNotify]_vars

(***************************************************************************)
(* Interception engine: helpers                                            *)
(***************************************************************************)
\* the i-th chunk of a body is the one-byte buffer <<i>>
Chunk(i) == <<i>>

\* Buffer.concat(chunks)
RECURSIVE BufferConcat(_)
BufferConcat(chunks) ==
  IF chunks = <<>> THEN <<>> ELSE Head(chunks) \o BufferConcat(Tail(chunks))

\* stringifyBody: Buffer.concat(chunks).toString("utf-8"); a body is written
\* as the sequence of its bytes
stringifyBody(chunks) == BufferConcat(chunks)

\* the call shapes of http.request / https.request / http.get / https.get
HttpShapes ==
  {[first |-> f, second |-> "none", third |-> "none"] :
      f \in {"string", "URL", "options"}} \cup
  {[first |-> f, second |-> "callback", third |-> "none"] :
      f \in {"string", "URL", "options"}} \cup
  {[first |-> f, second |-> "options", third |-> t] :
      f \in {"string", "URL"}, t \in {"none", "callback"}}

\* the call shapes of fetch(input, init)
FetchShapes ==
  {[first |-> f, second |-> i, third |-> "none"] :
      f \in {"string", "URL", "Request"}, i \in {"none", "init", "init+body"}}

\* the caller passed a response callback
HasCallback(args) == args.second = "callback" \/ args.third = "callback"

\* parseRequestArgs looking for the callback in args[1] only
parseRequestArgs_SecondArgOnly(args) ==
  [options |-> {args.first} \cup (IF args.second = "options" THEN {"options"} ELSE {}),
   callback |-> (args.second = "callback")]

\* parseRequestArgs: where the options come from and whether a callback was found
parseRequestArgs(args) ==
  IF args.first \in {"string", "URL"}
  THEN IF args.second = "callback"
       THEN [options |-> {args.first}, callback |-> TRUE]
       ELSE IF args.second = "options"
            THEN [options |-> {args.first, "options"},
                  callback |-> (args.third = "callback")]
            ELSE [options |-> {args.first}, callback |-> FALSE]
  ELSE IF args.first = "options"
       THEN [options |-> {"options"}, callback |-> (args.second = "callback")]
       ELSE [options |-> {}, callback |-> FALSE]

\* the call of the original function at the end of interceptedRequest
Delegate(args) ==
  IF args.first \in {"string", "URL"}
  THEN IF args.second = "options"
       THEN [first |-> args.first, second |-> "options", third |-> "wrappedCallback"]
       ELSE [first |-> args.first, second |-> "wrappedCallback", third |-> "none"]
  ELSE [first |-> "options", second |-> "wrappedCallback", third |-> "none"]

\* the events of a sequence that are emitted before a subscriber's exception
\* ends the emitting code: up to and including the first one the subscriber
\* throws on
RECURSIVE UntilThrow(_, _)
UntilThrow(evs, thr) ==
  IF evs = <<>> THEN <<>>
  ELSE IF Head(evs).kind = thr THEN <<Head(evs)>>
       ELSE <<Head(evs)>> \o UntilThrow(Tail(evs), thr)

\* a subscriber threw while the sequence was emitted
Throws(evs, thr) == \E i \in DOMAIN evs : evs[i].kind = thr

\* the store after the handlers of a sequence of emitted events have run
RECURSIVE DeliverAll(_, _, _)
DeliverAll(st, listening, evs) ==
  IF evs = <<>> THEN st
  ELSE DeliverAll(Deliver(st, listening, Head(evs)), listening, Tail(evs))

\* the effect of the events that were emitted: the store's handlers run for
\* each (they were attached first, so they run before a further subscriber)
Emitted(out) ==
  /\ StoreBecomes(DeliverAll(Store, isListening, out))
  /\ emitted' = emitted \o out
  /\ startOrder' = IF isListening /\ out # <<>> /\ out[1].kind = "request-start"
                   THEN Append(startOrder, out[1].id) ELSE startOrder
  /\ ListenersCalled(CallsForAll(Store, isListening, listeners, out))
  /\ lastOp' = Op("emit", "none", out)
  /\ UNCHANGED <<isListening, listeners, handles, unsubscribed, fixedVars,
                 lastEvicted>>

\* interceptorEmitter.emit for each event of evs in turn, until one throws
Emit(evs) == Emitted(UntilThrow(evs, thrower))

(***************************************************************************)
(* Interception engine: the patched http/https entry points                *)
(***************************************************************************)
HttpEntries == {"http.request", "https.request", "http.get", "https.get"}
IsGet(e) == e \in {"http.get", "https.get"}
ProtocolOf(e) == IF e \in {"https.request", "https.get"} THEN "https" ELSE "http"

\* the original is called before request-start is emitted
InvokeOriginal_BeforeStart(args, threw) == Append(forwarded, Delegate(args))

\* the calls of the original function once interceptedRequest is over: the
\* delegation comes after the emit of request-start, so it is reached only if
\* the emit returned
InvokeOriginal(args, threw) ==
  IF threw THEN forwarded ELSE Append(forwarded, Delegate(args))

\* interceptedRequest (and, for get, the req.end() of the patched get), for a
\* call of one of the given entry points with one of the given shapes
CallHttpWith(entries, shapes) ==
  \E e \in entries, args \in shapes :
    LET start == StartEvent(nextId, now, ProtocolOf(e))
        threw == Throws(<<start>>, thrower)
    IN  /\ pc = "idle"
        /\ entryPoints[e].kind \in {"interceptedRequest", "patchedGet"}
        /\ entry' = e
        /\ callArgs' = args
        /\ requestId' = nextId
        /\ nextId' = nextId + 1
        /\ startTime' = now
        /\ timing' = [timing EXCEPT !.dnsStart = now]
        /\ Emit(<<start>>)
        /\ forwarded' = InvokeOriginal(args, threw)
        /\ IF threw
           THEN /\ pc' = "threw"
                /\ callerResult' = "exception"
                /\ UNCHANGED <<callerEnded, origEnded>>
           ELSE /\ pc' = "open"
                /\ callerResult' = "ClientRequest"
                \* http.get: req.end() through the patched end, nothing written
                /\ callerEnded' = IsGet(e)
                /\ origEnded' = IF IsGet(e) THEN 1 ELSE 0
        /\ UNCHANGED <<now, requestBodyChunks, responseChunks, totalBytesReceived,
                       res, resListeners, nDelivered, forwardedBody,
                       callbackCalls, consumers, seen, uncaught>>

\* a call of any http/https entry point, in any supported shape
CallHttp == CallHttpWith(HttpEntries, HttpShapes)

\* a call of http.get with an options object, with or without a callback
CallGet ==
  CallHttpWith({"http.get"}, {a \in HttpShapes : a.first = "options"})

\* the chunk the caller passes next to write() or end(): the next piece of
\* the body, or the empty string
CallerChunks == {Chunk(Len(forwardedBody) + 1), <<>>}

\* the chunks tried for write(): the empty string as the first write only
WriteChunks ==
  IF forwardedBody = <<>> THEN CallerChunks ELSE {Chunk(Len(forwardedBody) + 1)}

\* if (chunk) requestBodyChunks.push(buffer): a falsy chunk is not captured
capture(chunks, chunk) == IF chunk # <<>> THEN Append(chunks, chunk) ELSE chunks

\* the patched clientRequest.write(chunk)
CallerWrite ==
  \E chunk \in WriteChunks :
    /\ pc \in {"open", "failed", "complete"}
    /\ ~callerEnded
    /\ Len(forwardedBody) < MaxWrites
    /\ requestBodyChunks' = capture(requestBodyChunks, chunk)
    /\ forwardedBody' = Append(forwardedBody, chunk)
    /\ UNCHANGED <<storeVars, histVars, nextId, now, fixedVars, pc, entry, callArgs,
                   requestId, startTime, timing, responseChunks, totalBytesReceived,
                   callerEnded, res, resListeners, nDelivered, forwarded, origEnded,
                   callerResult, callbackCalls, consumers, seen, uncaught, emitted>>

\* a request-body event that reports the chunks in reverse order
endEvents_Reversed(id, chunks) ==
  LET body == stringifyBody([i \in DOMAIN chunks |-> chunks[Len(chunks) + 1 - i]])
  IN  IF body # <<>> THEN <<BodyEvent(id, body)>> ELSE <<>>

\* what the patched end emits: const body = stringifyBody(requestBodyChunks);
\* if (body) emit("request-body", {id, body})
endEvents(id, chunks) ==
  LET body == stringifyBody(chunks)
  IN  IF body # <<>> THEN <<BodyEvent(id, body)>> ELSE <<>>

\* the patched clientRequest.end(chunk?): end(), end(chunk) or end("")
CallerEnd ==
  \E arg \in {Absent} \cup {Present(c) : c \in CallerChunks} :
    LET chunks == IF arg # Absent THEN capture(requestBodyChunks, arg[1])
                  ELSE requestBodyChunks
        evs == endEvents(requestId, chunks)
    IN  /\ pc \in {"open", "failed", "complete"}
        /\ ~callerEnded
        /\ arg # Absent => Len(forwardedBody) < MaxWrites
        /\ callerEnded' = TRUE
        /\ requestBodyChunks' = chunks
        /\ Emit(evs)
        /\ IF Throws(evs, thrower)
           THEN \* the exception leaves end() before originalEnd is reached
                UNCHANGED <<forwardedBody, origEnded>>
           ELSE /\ forwardedBody' = IF arg # Absent THEN Append(forwardedBody, arg[1])
                                    ELSE forwardedBody
                /\ origEnded' = origEnded + 1
        /\ UNCHANGED <<nextId, now, pc, entry, callArgs, requestId, startTime,
                       timing, responseChunks, totalBytesReceived, res,
                       resListeners, nDelivered, forwarded, callerResult,
                       callbackCalls, consumers, seen, uncaught>>

\* the request reached the network: headers go out with the first write or end
Sent == origEnded > 0 \/ forwardedBody # <<>>

\* clientRequest emits 'error' (connection refused, reset, destroy(err), ...):
\* the engine's error listener
TransportError ==
  LET evs == <<ErrorEvent(requestId, "E", (now + 1) - startTime)>>
  IN  /\ pc = "open"
      /\ res \in {"none", "open"}
      /\ now' = now + 1
      /\ pc' = "failed"
      /\ res' = IF res = "open" THEN "aborted" ELSE res
      /\ Emit(evs)
      /\ uncaught' = (uncaught \/ Throws(evs, thrower))
      /\ UNCHANGED <<nextId, entry, callArgs, requestId, startTime, timing,
                     requestBodyChunks, responseChunks, totalBytesReceived,
                     callerEnded, resListeners, nDelivered, forwarded,
                     forwardedBody, origEnded, callerResult, callbackCalls,
                     consumers, seen>>

(***************************************************************************)
(* Interception engine: the response (wrappedCallback)                     *)
(***************************************************************************)
StatusCodes == {200, 404}

\* what a caller attaches to the response it is handed
ConsumerKinds == {"on-data", "once-data", "on-end", "once-end", "pipe"}
Configs == UNION {[1..n -> ConsumerKinds] : n \in 0..MaxConsumers}

\* a || b of JavaScript on numbers
Or(a, b) == IF a # 0 THEN a ELSE b

\* the timing breakdown computed when the body ends
\* the breakdown with every phase computed from its timestamp, observed or not
TimingBreakdownEvent_NoZeroPhase(id, t, start, endTime) ==
  LET dns == t.dnsEnd - start
      tcp == t.tcpEnd - Or(t.dnsEnd, start)
      ttfb == t.ttfbEnd - Or(t.tcpEnd, Or(t.dnsEnd, start))
      download == endTime - Or(t.ttfbEnd, Or(t.tcpEnd, Or(t.dnsEnd, start)))
  IN  TimingEvent(id, dns, tcp, ttfb, download, endTime - start)

\* the breakdown with the connect phase measured from the start of the request
TimingBreakdownEvent_TcpFromStart(id, t, start, endTime) ==
  LET dns == IF t.dnsEnd # 0 THEN t.dnsEnd - start ELSE 0
      tcp == IF t.tcpEnd # 0 THEN t.tcpEnd - start ELSE 0
      ttfb == IF t.ttfbEnd # 0
              THEN t.ttfbEnd - Or(t.tcpEnd, Or(t.dnsEnd, start)) ELSE 0
      download == endTime - Or(t.ttfbEnd, Or(t.tcpEnd, Or(t.dnsEnd, start)))
  IN  TimingEvent(id, dns, tcp, ttfb, download, endTime - start)

TimingBreakdownEvent(id, t, start, endTime) ==
  LET dns == IF t.dnsEnd # 0 THEN t.dnsEnd - start ELSE 0
      tcp == IF t.tcpEnd # 0 THEN t.tcpEnd - Or(t.dnsEnd, start) ELSE 0
      ttfb == IF t.ttfbEnd # 0
              THEN t.ttfbEnd - Or(t.tcpEnd, Or(t.dnsEnd, start)) ELSE 0
      download == endTime - Or(t.ttfbEnd, Or(t.tcpEnd, Or(t.dnsEnd, start)))
  IN  TimingEvent(id, dns, tcp, ttfb, download, endTime - start)

\* the listeners that reach the response's own emitter when consumer i is
\* attached.  Every one of them is built by the patched res.on: the patched
\* res.once hands its wrapper to EventEmitter.prototype.once, which registers
\* through this.on, the patched method, so a once listener is wrapped twice and
\* the listener that is registered is not the one once removes after firing
\* (fired says the inner once wrapper has run).  inner is what the wrappers
\* call in the end.  pipe(): the patched pipe hands a PassThrough to the
\* original pipe with {end: false}, and the original pipe subscribes through
\* this.once('end', unpipe) and this.on('data', ondata).
ListenersOf(kind, i) ==
  CASE kind = "on-data" ->
         <<[event |-> "data", once |-> FALSE, fired |-> FALSE, consumer |-> i,
            inner |-> "caller"]>>
    [] kind = "once-data" ->
         <<[event |-> "data", once |-> TRUE, fired |-> FALSE, consumer |-> i,
            inner |-> "caller"]>>
    [] kind = "on-end" ->
         <<[event |-> "end", once |-> FALSE, fired |-> FALSE, consumer |-> i,
            inner |-> "caller"]>>
    [] kind = "once-end" ->
         <<[event |-> "end", once |-> TRUE, fired |-> FALSE, consumer |-> i,
            inner |-> "caller"]>>
    [] kind = "pipe" ->
         <<[event |-> "end", once |-> TRUE, fired |-> FALSE, consumer |-> i,
            inner |-> "unpipe"],
           [event |-> "data", once |-> FALSE, fired |-> FALSE, consumer |-> i,
            inner |-> "passThrough"]>>

RECURSIVE AllListeners(_, _)
AllListeners(config, i) ==
  IF i > Len(config) THEN <<>>
  ELSE ListenersOf(config[i], i) \o AllListeners(config, i + 1)

\* the response flows once a data listener or a pipe is attached
Flowing == \E i \in DOMAIN consumers : consumers[i] \in {"on-data", "once-data", "pipe"}

\* the usual ways of consuming a response
SimpleConfigs ==
  {<<>>, <<"on-data", "on-end">>, <<"pipe">>}

\* the response event: wrappedCallback, then the engine's ttfb listener, then
\* the caller's own response listener if it passed no callback; the caller
\* attaches one of the given configurations of consumers
ResponseWith(configs) ==
  \E code \in StatusCodes, config \in configs :
    LET evs == <<HeadersEvent(requestId, code)>>
        threw == Throws(evs, thrower)
        parsed == parseRequestArgs(callArgs)
        \* the caller gets hold of the response through its callback, or,
        \* when it passed none, through req.on("response")
        handed == IF HasCallback(callArgs) THEN parsed.callback ELSE TRUE
        attached == IF handed /\ ~threw THEN config ELSE <<>>
    IN  /\ pc = "open"
        /\ res = "none"
        /\ Sent
        /\ now' = now + 1
        /\ res' = "open"
        /\ Emit(evs)
        /\ uncaught' = (uncaught \/ threw)
        /\ callbackCalls' = IF parsed.callback /\ ~threw THEN callbackCalls + 1
                            ELSE callbackCalls
        /\ consumers' = attached
        /\ resListeners' = AllListeners(attached, 1)
        /\ seen' = [i \in 1..Len(attached) |-> [chunks |-> <<>>, ends |-> 0]]
        /\ timing' = IF threw THEN timing ELSE [timing EXCEPT !.ttfbEnd = now + 1]
        /\ UNCHANGED <<nextId, pc, entry, callArgs, requestId, startTime,
                       requestBodyChunks, responseChunks, totalBytesReceived,
                       callerEnded, nDelivered, forwarded, forwardedBody,
                       origEnded, callerResult>>

\* the response event, the caller attaching any consumers
Response == ResponseWith(Configs)

\* the response event, the caller consuming the response in a usual way
ResponseSimple == ResponseWith(SimpleConfigs)

\* one registered listener of the response handling a data chunk: the wrapper
\* of res.on captures the chunk and counts its bytes; for a once listener
\* that has not fired the wrapper of res.once captures it again; then the
\* caller's listener, or ondata writing to the PassThrough, whose data
\* listener captures the chunk before it goes on to the destination
DataStep(acc, l, chunk) ==
  LET live == ~(l.once /\ l.fired)
      byOn == Append(acc.responseChunks, chunk)
      byOnce == IF l.once /\ live THEN Append(byOn, chunk) ELSE byOn
      byPassThrough == IF l.inner = "passThrough" THEN Append(byOnce, chunk)
                       ELSE byOnce
  IN  [responseChunks |-> byPassThrough,
       totalBytesReceived |-> acc.totalBytesReceived + Len(chunk),
       seen |-> IF live
                THEN [acc.seen EXCEPT ![l.consumer].chunks = Append(@, chunk)]
                ELSE acc.seen]

RECURSIVE DataDispatch(_, _, _)
DataDispatch(acc, ls, chunk) ==
  IF ls = <<>> THEN acc
  ELSE DataDispatch(
         IF Head(ls).event = "data" THEN DataStep(acc, Head(ls), chunk) ELSE acc,
         Tail(ls), chunk)

\* the response emits 'data'
Data ==
  LET chunk == Chunk(nDelivered + 1)
      acc == DataDispatch([responseChunks |-> responseChunks,
                           totalBytesReceived |-> totalBytesReceived,
                           seen |-> seen], resListeners, chunk)
  IN  /\ pc = "open"
      /\ res = "open"
      /\ Flowing
      /\ nDelivered < MaxChunks
      /\ now' = now + 1
      /\ nDelivered' = nDelivered + 1
      /\ responseChunks' = acc.responseChunks
      /\ totalBytesReceived' = acc.totalBytesReceived
      /\ seen' = acc.seen
      /\ resListeners' = [i \in DOMAIN resListeners |->
                            IF resListeners[i].event = "data" /\ resListeners[i].once
                            THEN [resListeners[i] EXCEPT !.fired = TRUE]
                            ELSE resListeners[i]]
      /\ UNCHANGED <<storeVars, histVars, nextId, fixedVars, pc, entry, callArgs,
                     requestId, startTime, timing, requestBodyChunks, callerEnded,
                     res, forwarded, forwardedBody, origEnded, callerResult,
                     callbackCalls, consumers, uncaught, emitted>>

\* an end wrapper that emits no size-update
EndSteps_NoSize(l, endTime) ==
  LET body == stringifyBody(responseChunks)
      t == [timing EXCEPT !.downloadEnd = endTime]
      timingEv == TimingBreakdownEvent(requestId, t, startTime, endTime)
      completeEv == CompleteEvent(requestId, body, endTime - startTime)
      call == [kind |-> "call", consumer |-> l.consumer, inner |-> l.inner]
  IN  <<timingEv, completeEv, call>>

\* what one registered end listener does: the events the wrapper of res.on
\* emits, for a once listener the events the wrapper of res.once emits, then
\* the call of the listener they wrap
EndSteps(l, endTime) ==
  LET body == stringifyBody(responseChunks)
      t == [timing EXCEPT !.downloadEnd = endTime]
      timingEv == TimingBreakdownEvent(requestId, t, startTime, endTime)
      sizeEv == SizeEvent(requestId, Or(0, totalBytesReceived), Len(body), "null")
      completeEv == CompleteEvent(requestId, body, endTime - startTime)
      call == [kind |-> "call", consumer |-> l.consumer, inner |-> l.inner]
  IN  IF l.once
      THEN <<timingEv, sizeEv, completeEv, timingEv, completeEv, call>>
      ELSE <<timingEv, sizeEv, completeEv, call>>

RECURSIVE EndDispatch(_, _)
EndDispatch(ls, endTime) ==
  IF ls = <<>> THEN <<>>
  ELSE (IF Head(ls).event = "end" THEN EndSteps(Head(ls), endTime) ELSE <<>>)
         \o EndDispatch(Tail(ls), endTime)

\* the end listeners of the caller that were called
RECURSIVE CountEnds(_, _)
CountEnds(got, steps) ==
  IF steps = <<>> THEN got
  ELSE CountEnds(
         IF Head(steps).kind = "call" /\ Head(steps).inner = "caller"
         THEN [got EXCEPT ![Head(steps).consumer].ends = @ + 1] ELSE got,
         Tail(steps))

\* the response emits 'end'
End ==
  LET steps == EndDispatch(resListeners, now + 1)
      done == UntilThrow(steps, thrower)
      out == SelectSeq(done, LAMBDA x : x.kind # "call")
  IN  /\ pc = "open"
      /\ res = "open"
      /\ Flowing
      /\ now' = now + 1
      /\ res' = "ended"
      /\ pc' = "complete"
      /\ timing' = IF \E i \in DOMAIN resListeners : resListeners[i].event = "end"
                   THEN [timing EXCEPT !.downloadEnd = now + 1] ELSE timing
      /\ Emitted(out)
      /\ uncaught' = (uncaught \/ Throws(steps, thrower))
      /\ seen' = CountEnds(seen, done)
      /\ resListeners' = [i \in DOMAIN resListeners |->
                            IF resListeners[i].event = "end" /\ resListeners[i].once
                            THEN [resListeners[i] EXCEPT !.fired = TRUE]
                            ELSE resListeners[i]]
      /\ UNCHANGED <<nextId, entry, callArgs, requestId, startTime,
                     requestBodyChunks, responseChunks, totalBytesReceived,
                     callerEnded, nDelivered, forwarded, forwardedBody, origEnded,
                     callerResult, callbackCalls, consumers>>

(***************************************************************************)
(* Interception engine: the patched fetch                                  *)
(***************************************************************************)
\* body text a decode failure is recorded as ("[Binary data]")
BinaryData == <<"[Binary data]">>

\* the bytes of a body of n chunks
RECURSIVE BodyOf(_)
BodyOf(n) == IF n = 0 THEN <<>> ELSE BodyOf(n - 1) \o Chunk(n)

\* the events of a try block followed by what its catch emits when one threw
TryCatch(evs, id, d) ==
  IF Throws(evs, thrower)
  THEN UntilThrow(evs, thrower) \o UntilThrow(<<ErrorEvent(id, "E", d)>>, thrower)
  ELSE evs

\* globalThis.fetch up to the await of the original fetch
CallFetch ==
  \E args \in FetchShapes, protocol \in {"http", "https"} :
    LET evs == <<StartEvent(nextId, now, protocol)>> \o
               (IF args.second = "init+body"
                THEN <<BodyEvent(nextId, Chunk(1))>> ELSE <<>>)
        threw == Throws(evs, thrower)
    IN  /\ pc = "idle"
        /\ entryPoints["fetch"].kind = "patchedFetch"
        /\ entry' = "fetch"
        /\ callArgs' = args
        /\ requestId' = nextId
        /\ nextId' = nextId + 1
        /\ startTime' = now
        /\ Emit(evs)
        /\ IF threw
           THEN /\ pc' = "threw"
                /\ callerResult' = "rejected: subscriber's exception"
                /\ UNCHANGED forwarded
           ELSE /\ pc' = "fetching"
                /\ callerResult' = "pending"
                /\ forwarded' = Append(forwarded, args)
        /\ UNCHANGED <<now, timing, requestBodyChunks, responseChunks,
                       totalBytesReceived, callerEnded, res, resListeners,
                       nDelivered, forwardedBody, origEnded, callbackCalls,
                       consumers, seen, uncaught>>

\* the original fetch resolves: response-headers, then await clone().text()
FetchResolve ==
  \E code \in StatusCodes :
    LET evs == <<HeadersEvent(requestId, code)>>
        threw == Throws(evs, thrower)
    IN  /\ pc = "fetching"
        /\ now' = now + 1
        /\ Emitted(TryCatch(evs, requestId, (now + 1) - startTime))
        /\ IF threw
           THEN /\ pc' = "failed"
                /\ callerResult' = "rejected: subscriber's exception"
                /\ UNCHANGED timing
           ELSE /\ pc' = "fetchBody"
                /\ timing' = [timing EXCEPT !.downloadEnd = now + 1]
                /\ UNCHANGED callerResult
        /\ UNCHANGED <<nextId, entry, callArgs, requestId, startTime,
                       requestBodyChunks, responseChunks, totalBytesReceived,
                       callerEnded, res, resListeners, nDelivered, forwarded,
                       forwardedBody, origEnded, callbackCalls, consumers, seen,
                       uncaught>>

\* clone().text() settles: timing-update, size-update, response-complete,
\* and the response is returned to the caller
FetchBodyRead ==
  \E n \in 0..MaxChunks, decoded \in BOOLEAN :
    LET bodyText == IF decoded THEN BodyOf(n) ELSE BinaryData
        duration == timing.downloadEnd - startTime
        resource == Len(bodyText)
        evs == <<TimingEvent(requestId, 0, 0, 0, 0, duration),
                 SizeEvent(requestId, Or(0, resource), resource, "null"),
                 CompleteEvent(requestId, bodyText, duration)>>
        threw == Throws(evs, thrower)
    IN  /\ pc = "fetchBody"
        /\ ~decoded => n = 0
        /\ now' = now + 1
        /\ Emitted(TryCatch(evs, requestId, (now + 1) - startTime))
        /\ IF threw
           THEN /\ pc' = "failed"
                /\ callerResult' = "rejected: subscriber's exception"
           ELSE /\ pc' = "complete"
                /\ callerResult' = "Response"
        /\ UNCHANGED <<nextId, entry, callArgs, requestId, startTime, timing,
                       requestBodyChunks, responseChunks, totalBytesReceived,
                       callerEnded, res, resListeners, nDelivered, forwarded,
                       forwardedBody, origEnded, callbackCalls, consumers, seen,
                       uncaught>>

\* the original fetch rejects: request-error, and the error is rethrown
FetchReject ==
  LET evs == <<ErrorEvent(requestId, "E", (now + 1) - startTime)>>
  IN  /\ pc = "fetching"
      /\ now' = now + 1
      /\ Emit(evs)
      /\ pc' = "failed"
      /\ callerResult' = IF Throws(evs, thrower)
                         THEN "rejected: subscriber's exception"
                         ELSE "rejected: original's error"
      /\ UNCHANGED <<nextId, entry, callArgs, requestId, startTime, timing,
                     requestBodyChunks, responseChunks, totalBytesReceived,
                     callerEnded, res, resListeners, nDelivered, forwarded,
                     forwardedBody, origEnded, callbackCalls, consumers, seen,
                     uncaught>>

(***************************************************************************)
(* Spec: one intercepted exchange, from the call to its end: every entry   *)
(* point and call shape, the request body written at any time, the         *)
(* response consumed in a usual way                                        *)
(***************************************************************************)
Next ==
  \/ Subscribe
  \/ CallHttp \/ CallerWrite \/ CallerEnd \/ TransportError
  \/ ResponseSimple \/ Data \/ End
  \/ CallFetch \/ FetchResolve \/ FetchBodyRead \/ FetchReject

Spec == Init /\ [][Next]_vars

(***************************************************************************)
(* SpecLateWrite: the same with a caller that calls write() after end()    *)
(***************************************************************************)
\* the patched clientRequest.write(chunk) once the request has been ended:
\* the chunk is captured and handed to the original write, which refuses it
\* (ERR_STREAM_WRITE_AFTER_END) and emits 'error' on the request without
\* destroying it; the engine's error listener handles that event, and the
\* exchange goes on
WriteAfterEnd ==
  \E chunk \in WriteChunks :
    LET evs == <<ErrorEvent(requestId, "write after end", (now + 1) - startTime)>>
    IN  /\ pc = "open"
        /\ entry \in HttpEntries
        /\ callerEnded
        /\ origEnded > 0
        /\ Len(forwardedBody) < MaxWrites
        /\ now' = now + 1
        /\ requestBodyChunks' = capture(requestBodyChunks, chunk)
        /\ forwardedBody' = Append(forwardedBody, chunk)
        /\ Emit(evs)
        /\ uncaught' = (uncaught \/ Throws(evs, thrower))
        /\ UNCHANGED <<nextId, pc, entry, callArgs, requestId, startTime, timing,
                       responseChunks, totalBytesReceived, callerEnded, res,
                       resListeners, nDelivered, forwarded, origEnded,
                       callerResult, callbackCalls, consumers, seen>>

NextLateWrite == Next \/ WriteAfterEnd

SpecLateWrite == Init /\ [][NextLateWrite]_vars

(***************************************************************************)
(* SpecConsume: one http.get, the response consumed through any            *)
(* combination of on, once and pipe                                        *)
(***************************************************************************)
NextConsume ==
  \/ Subscribe
  \/ CallGet \/ TransportError
  \/ Response \/ Data \/ End

SpecConsume == Init /\ [][NextConsume]_vars

(***************************************************************************)
(* SpecObserver: the same with a further subscriber of interceptorEmitter  *)
(* (the emitter is exported) that throws on one kind of event              *)
(***************************************************************************)
InitObserver ==
  /\ InitStore
  /\ thrower \in LifecycleKinds \cup {"request-start"}
  /\ Started
  /\ NoExchange

SpecObserver == InitObserver /\ [][Next]_vars

(***************************************************************************)
(* IPC server (ipc.ts): discovery record                                   *)
(***************************************************************************)
\* the port the operating system gave the server of process p
PortOf(p) == <<"port", p>>

\* process.kill(pid, 0) succeeds: the process exists
isProcessAlive(ps, pid) == pid \in DOMAIN ps /\ ps[pid].state # "exited"

\* a file that is not JSON text, and the port of a record without one
Unparsable == [pid |-> 0, port |-> "unparsable"]
NoPort == <<"port", 0>>

\* a readIpcInfo that does not ask whether the process is alive
readIpcInfo_AnyPid(file, ps) ==
  IF file.pid = 0 \/ file.port = NoPort THEN NoRecord ELSE file

\* readIpcInfo: the record of the file, or null (NoRecord) when there is no
\* file, it cannot be parsed, it has no pid or no port, or its process is gone
readIpcInfo(file, ps) ==
  IF file.pid = 0 \/ file.port = NoPort \/ ~isProcessAlive(ps, file.pid)
  THEN NoRecord ELSE file

\* removeIpcInfoIfOwned after its read returned info: unlinkSync when the
\* record read was the caller's own
unlinkIfOwned(info, pid, file) ==
  IF info.pid # 0 /\ info.pid = pid THEN NoRecord ELSE file

\* startIpcServer up to its return: the store is subscribed, no socket is
\* connected yet, so the listener's first call broadcasts to nobody.  The
\* store of process Self is the one followed.
StartIpcServer(p) ==
  /\ procs[p].state = "idle"
  /\ procs' = [procs EXCEPT ![p].state = "started"]
  /\ IF p = Self
     THEN /\ listeners' = SetAdd(listeners, "ipc")
          /\ isListening' = TRUE
          /\ ListenersCalled(<<ListenerCall("ipc", getLogs(Store))>>)
          /\ unsubscribed' = unsubscribed \ {"ipc"}
          /\ lastOp' = Op("subscribe", "ipc", <<>>)
     ELSE UNCHANGED <<listeners, isListening, calls, frames, unsubscribed, lastOp>>
  /\ UNCHANGED <<logs, orderedIds, handles, nextId, now, thrower, sockets,
                 installVars, auxVars, conn, wire, nSent, buffer, delivered, replays, client, ipcFile,
                 exchangeVars, histVars>>

\* the callback of server.listen: the discovery record is written, replacing
\* any record that is there
ListenCallback(p) ==
  /\ procs[p].state = "started"
  /\ procs' = [procs EXCEPT ![p].state = "listening"]
  /\ ipcFile' = [pid |-> p, port |-> PortOf(p)]
  /\ UNCHANGED <<storeVars, nextId, now, thrower, sockets, installVars, auxVars, conn,
                 wire, nSent, buffer, delivered, replays, client, exchangeVars, histVars>>

\* close() up to the read of removeIpcInfoIfOwned: the listener is
\* unsubscribed, every socket destroyed, the discovery record read
CloseBegin(p) ==
  /\ procs[p].state \in {"started", "listening"}
  /\ procs' = [procs EXCEPT ![p] = [state |-> "closing",
                                    info |-> readIpcInfo(ipcFile, procs)]]
  /\ IF p = Self
     THEN /\ listeners' = unsubscribeHandle(listeners, "ipc")
          /\ unsubscribed' = unsubscribed \cup {"ipc"}
          /\ sockets' = <<>>
          /\ conn' = [v \in Viewers |->
                        IF conn[v] = "open" THEN "destroyed" ELSE conn[v]]
          /\ calls' = <<>>
          /\ lastOp' = Op("unsubscribe", "ipc", <<>>)
     ELSE UNCHANGED <<listeners, unsubscribed, sockets, conn, calls, lastOp>>
  /\ UNCHANGED <<logs, orderedIds, isListening, handles, frames, nextId, now,
                 thrower, installVars, auxVars, wire, nSent, buffer, delivered, replays, client, ipcFile,
                 exchangeVars, histVars>>

\* the rest of removeIpcInfoIfOwned: the comparison and the unlinkSync
CloseUnlink(p) ==
  /\ procs[p].state = "closing"
  /\ procs' = [procs EXCEPT ![p].state = "closed"]
  /\ ipcFile' = unlinkIfOwned(procs[p].info, p, ipcFile)
  /\ UNCHANGED <<storeVars, nextId, now, thrower, sockets, installVars, auxVars, conn,
                 wire, nSent, buffer, delivered, replays, client, exchangeVars, histVars>>

\* the process is gone: after its close(), or killed where no handler runs
ProcessExit(p) ==
  /\ procs[p].state \in {"listening", "closed"}
  /\ procs' = [procs EXCEPT ![p].state = "exited"]
  /\ UNCHANGED <<storeVars, nextId, now, thrower, sockets, installVars, auxVars, conn,
                 wire, nSent, buffer, delivered, replays, client, ipcFile, exchangeVars, histVars>>

(***************************************************************************)
(* SpecDiscovery: several processes start and close their IPC servers      *)
(***************************************************************************)
NextDiscovery ==
  \E p \in Pids :
    \/ StartIpcServer(p)
    \/ ListenCallback(p)
    \/ CloseBegin(p)
    \/ CloseUnlink(p)
    \/ ProcessExit(p)

SpecDiscovery == Init /\ [][NextDiscovery]_vars

(***************************************************************************)
(* IPC server (ipc.ts): viewer connections                                 *)
(***************************************************************************)
InitFrame(st) == [type |-> "init", logs |-> getLogs(st)]

\* a connection handler that sends no init frame
connection_NoInit(fr, socks, v, st) ==
  [sockets |-> SetAdd(socks, v), frames |-> fr]

\* the 'connection' handler: the socket joins the broadcast set and is sent
\* the init frame, in the same turn
connection(fr, socks, v, st) ==
  [sockets |-> SetAdd(socks, v),
   frames  |-> [fr EXCEPT ![v] = Append(@, InitFrame(st))]]

\* a viewer's connection reaches the server
ViewerConnect(v) ==
  /\ procs[Self].state = "listening"
  /\ conn[v] = "new"
  /\ conn' = [conn EXCEPT ![v] = "open"]
  /\ LET c == connection(frames, sockets, v, Store)
     IN  /\ sockets' = c.sockets
         /\ frames' = c.frames
  /\ UNCHANGED <<logs, orderedIds, isListening, listeners, handles, calls, lastOp,
                 unsubscribed, nextId, now, thrower, installVars, auxVars, wire, nSent, buffer,
                 delivered, replays, client, procs, ipcFile, exchangeVars, histVars>>

\* the socket's 'close' (or 'error') handler, after the viewer went away
ViewerClose(v) ==
  /\ conn[v] = "open"
  /\ conn' = [conn EXCEPT ![v] = "closed"]
  /\ sockets' = SetDelete(sockets, v)
  /\ UNCHANGED <<storeVars, nextId, now, thrower, installVars, auxVars, wire, nSent, buffer,
                 delivered, replays, client, procs, ipcFile, exchangeVars, histVars>>

(***************************************************************************)
(* IPC server (ipc.ts): inbound frames                                     *)
(***************************************************************************)
\* The text a viewer sends is a sequence of symbols: the two halves of a
\* frame's JSON text, the newline, and a blank.
NL == <<"nl", 0>>
SP == <<"sp", 0>>

\* frames whose text JSON.parse accepts: a replay frame with a record, a
\* replay frame without one, a frame of another type, and the text null
FrameKinds == {"replay", "replayNoLog", "unknown", "null"}
Text(k) == <<<<k, 1>>, <<k, 2>>>>

\* A character outside ASCII is two bytes on the socket (socket.write encodes
\* the text as UTF-8): Lead and Cont are the bytes of one such character,
\* Wide is that character and Repl is U+FFFD
Lead == <<"lead", 0>>
Cont == <<"cont", 0>>
Wide == <<"wide", 0>>
Repl == <<"repl", 0>>

\* a replay frame for a record whose text holds that character
WideReplay == <<<<"replay", 1>>, Lead, Cont, <<"replay", 2>>>>

\* encodeMessage and what a faulty or foreign client may write instead: a
\* frame cut short, a blank line, a frame within blanks, a frame without its
\* newline
Units ==
  {Text(k) \o <<NL>> : k \in FrameKinds} \cup
  {<<<<"replay", 1>>, NL>>, <<SP, NL>>, <<SP>> \o Text("replay") \o <<SP, NL>>,
   Text("replay")}

\* data.toString() of one chunk: UTF-8 decoding of the bytes of that chunk
\* alone.  A lead byte followed by its continuation byte is the character; a
\* lead byte at the end of the chunk, and a continuation byte with no lead
\* byte before it, each become U+FFFD
RECURSIVE toString(_)
toString(data) ==
  IF data = <<>> THEN <<>>
  ELSE IF Head(data) = Lead /\ Len(data) >= 2 /\ data[2] = Cont
       THEN <<Wide>> \o toString(SubSeq(data, 3, Len(data)))
  ELSE IF Head(data) \in {Lead, Cont} THEN <<Repl>> \o toString(Tail(data))
  ELSE <<Head(data)>> \o toString(Tail(data))

\* the text of a byte stream decoded as one stream (what a StringDecoder
\* yields): a lead byte at the very end is not text yet
Decode(bytes) ==
  IF bytes # <<>> /\ bytes[Len(bytes)] = Lead
  THEN toString(SubSeq(bytes, 1, Len(bytes) - 1))
  ELSE toString(bytes)

\* String.prototype.trim
Trim(line) ==
  LET solid == {i \in 1..Len(line) : line[i] # SP}
  IN  IF solid = {} THEN <<>>
      ELSE SubSeq(line, CHOOSE i \in solid : \A j \in solid : i <= j,
                        CHOOSE i \in solid : \A j \in solid : j <= i)

\* the texts of a replay frame with a record: of a record in ASCII, of one
\* with the wide character, and of one with two U+FFFD in its place (a JSON
\* text as well, of another record)
ReplayTexts ==
  {Text("replay"), toString(WideReplay),
   <<<<"replay", 1>>, Repl, Repl, <<"replay", 2>>>>}

\* JSON.parse(line) and the test of the message: "replay" when replayRequest
\* is to be called, "ignored" when the message is of no known kind, "throws"
\* when JSON.parse fails or the message is null
handleLine(line) ==
  IF line \in ReplayTexts THEN "replay"
  ELSE IF line \in {Text("replayNoLog"), Text("unknown")} THEN "ignored"
  ELSE "throws"

\* the while loop of the data handler: line by line, up to the last newline;
\* caught says whether the body of the loop catches what it throws
RECURSIVE drainLines(_, _, _)
drainLines(buf, n, caught) ==
  LET newlines == {i \in 1..Len(buf) : buf[i] = NL}
  IN  IF newlines = {} THEN [buffer |-> buf, replays |-> n]
      ELSE LET index == CHOOSE i \in newlines : \A j \in newlines : i <= j
               line  == Trim(SubSeq(buf, 1, index - 1))
               rest  == SubSeq(buf, index + 1, Len(buf))
               h     == IF line = <<>> THEN "ignored" ELSE handleLine(line)
           IN  IF h = "throws" /\ ~caught
               THEN [buffer |-> rest, replays |-> n]
               ELSE drainLines(rest, IF h = "replay" THEN n + 1 ELSE n, caught)

\* a data handler without the try/catch: the first malformed line ends the
\* turn
onData_NoCatch(buf, data) == drainLines(buf \o toString(data), 0, FALSE)

\* socket.on('data'): the new buffer and the number of replays issued
onData(buf, data) == drainLines(buf \o toString(data), 0, TRUE)

\* replayRequest k times: each call reaches the patched http.request, which
\* emits request-start at once (the record replayed has no body, so req.end()
\* emits nothing more)
ReplayEvents(k) ==
  IF entryPoints["http.request"].kind = "interceptedRequest"
  THEN [i \in 1..k |-> StartEvent(nextId + i - 1, now, "http")]
  ELSE <<>>

\* a viewer writes a frame, or something else, to its socket
ViewerSend(v) ==
  /\ conn[v] = "open"
  /\ nSent < MaxInbound
  /\ nSent' = nSent + 1
  /\ \E u \in Units : wire' = [wire EXCEPT ![v] = @ \o u]
  /\ UNCHANGED <<storeVars, nextId, now, thrower, sockets, installVars, auxVars, conn,
                 buffer, delivered, replays, client, procs, ipcFile, exchangeVars,
                 histVars>>

\* a 'data' event of a viewer's socket, carrying any part of what is under way
SocketData(v) ==
  /\ conn[v] = "open"
  /\ \E n \in 1..Len(wire[v]) :
       LET data == SubSeq(wire[v], 1, n)
           r    == onData(buffer[v], data)
           evs  == ReplayEvents(r.replays)
           st   == DeliverAll(Store, isListening, evs)
       IN  /\ wire' = [wire EXCEPT ![v] = SubSeq(@, n + 1, Len(@))]
           /\ delivered' = [delivered EXCEPT ![v] = @ \o data]
           /\ buffer' = [buffer EXCEPT ![v] = r.buffer]
           /\ heard' = [heard EXCEPT ![v] = @ \o toString(data)]
           /\ replays' = [replays EXCEPT ![v] = @ + r.replays]
           /\ nextId' = nextId + r.replays
           /\ IF evs = <<>>
              THEN UNCHANGED <<logs, orderedIds, calls, frames, lastOp, histVars>>
              ELSE /\ StoreBecomes(st)
                   /\ startOrder' = IF isListening
                                    THEN startOrder \o [i \in 1..Len(evs) |-> evs[i].id]
                                    ELSE startOrder
                   /\ lastEvicted' = Evicted(Store, st)
                   /\ ListenersCalled(CallsForAll(Store, isListening, listeners, evs))
                   /\ lastOp' = Op("emit", "none", evs)
  /\ UNCHANGED <<isListening, listeners, handles, unsubscribed, now, thrower,
                 sockets, installVars, normalized, issued, replayed, closures,
                 signals, remote, conn, nSent, client, procs, ipcFile,
                 exchangeVars>>

(***************************************************************************)
(* SpecInbound: one IPC server and what its viewers send it                *)
(***************************************************************************)
NextInbound ==
  \/ StartIpcServer(Self)
  \/ ListenCallback(Self)
  \/ \E v \in Viewers :
       ViewerConnect(v) \/ ViewerSend(v) \/ SocketData(v) \/ ViewerClose(v)
  \/ CloseBegin(Self)
  \/ CloseUnlink(Self)

SpecInbound == Init /\ [][NextInbound]_vars

(***************************************************************************)
(* Replay (replay.ts)                                                      *)
(***************************************************************************)
\* a replayRequest that reuses the id of the record it replays: the record is
\* overwritten and put at the head a second time
replayRequest_SameId(log, id, t) ==
  LET urlObj == ParseUrl(log.request.url)
  IN  IF ~urlObj.valid THEN [events |-> <<>>, requests |-> <<>>]
      ELSE [events   |-> <<StartEventFor(log.id, t, log.request)>>,
            requests |-> <<[protocol |-> log.protocol, options |-> NoOptions,
                            body |-> log.reqBody]>>]

\* a replayRequest that never writes the body
replayRequest_NoBody(log, id, t) ==
  LET urlObj == ParseUrl(log.request.url)
      protocol == IF log.protocol = "https" THEN "https" ELSE "http"
      options == [NoOptions EXCEPT
                    !.hostname = <<urlObj.hostname>>,
                    !.port = IF urlObj.port # "" THEN PortStr(urlObj.port)
                             ELSE PortNum(DefaultPortText(protocol)),
                    !.path = <<urlObj.pathname>> \o
                             (IF urlObj.search = "" THEN <<>> ELSE <<urlObj.search>>),
                    !.method = log.request.method,
                    !.headers = log.request.headers]
  IN  IF ~urlObj.valid THEN [events |-> <<>>, requests |-> <<>>]
      ELSE [events   |-> <<StartEventFor(id, t, interceptedStart(options, protocol))>>,
            requests |-> <<[protocol |-> protocol, options |-> options,
                            body |-> <<>>]>>]

\* replayRequest(log): new URL(log.url) throws for a url that is not absolute;
\* otherwise one call of http.request or https.request with options made of
\* the record, the body written when there is one, and end().  The call goes
\* through the patched entry point, which emits request-start under the new
\* id and, at end(), request-body.
replayRequest(log, id, t) ==
  LET urlObj == ParseUrl(log.request.url)
      protocol == IF log.protocol = "https" THEN "https" ELSE "http"
      options == [NoOptions EXCEPT
                    !.hostname = <<urlObj.hostname>>,
                    !.port = IF urlObj.port # "" THEN PortStr(urlObj.port)
                             ELSE PortNum(DefaultPortText(protocol)),
                    !.path = <<urlObj.pathname>> \o
                             (IF urlObj.search = "" THEN <<>> ELSE <<urlObj.search>>),
                    !.method = log.request.method,
                    !.headers = log.request.headers]
  IN  IF ~urlObj.valid THEN [events |-> <<>>, requests |-> <<>>]
      ELSE [events   |-> <<StartEventFor(id, t, interceptedStart(options, protocol))>> \o
                         (IF log.reqBody # <<>> THEN <<BodyEvent(id, log.reqBody)>>
                          ELSE <<>>),
            requests |-> <<[protocol |-> protocol, options |-> options,
                            body |-> log.reqBody]>>]

\* the store's handlers run for the events, its listeners are called
StoreReceives(evs) ==
  LET st == DeliverAll(Store, isListening, evs)
      starts == SelectSeq(evs, LAMBDA e : e.kind = "request-start")
  IN  /\ StoreBecomes(st)
      /\ startOrder' = IF isListening
                       THEN startOrder \o [i \in 1..Len(starts) |-> starts[i].id]
                       ELSE startOrder
      /\ lastEvicted' = Evicted(Store, st)
      /\ ListenersCalled(CallsForAll(Store, isListening, listeners, evs))
      /\ lastOp' = Op("emit", "none", evs)

\* the requests whose capture SpecReplay follows: a GET with port and query by
\* http.request, a POST with headers and body by https.request, a fetch of an
\* absolute URL, and a fetch of a relative one (which fetch rejects)
Captures ==
  {[by |-> "http", text |-> <<"http", "://", "api.test", ":", "8080", "/a", "?x">>,
    method |-> "", headers |-> "", body |-> <<>>],
   [by |-> "https", text |-> <<"https", "://", "api.test">>,
    method |-> "post", headers |-> "H1", body |-> <<1>>],
   [by |-> "fetch", text |-> <<"https", "://", "api.test", "/a">>,
    method |-> "", headers |-> "", body |-> <<>>],
   [by |-> "fetch", text |-> RelativeText,
    method |-> "", headers |-> "", body |-> <<>>]}

\* the first request of the process, captured with its body by the store,
\* which is attached
Capture ==
  /\ nextId = 1
  /\ isListening
  /\ \E c \in Captures :
       LET start == IF c.by = "fetch" THEN fetchStart(c.text, c.method, c.headers)
                    ELSE interceptedStart(
                           spread(urlOptions(ParseUrl(c.text), c.by),
                                  [NoOptions EXCEPT !.method = c.method,
                                                    !.headers = c.headers]),
                           c.by)
       IN  StoreReceives(<<StartEventFor(nextId, now, start)>> \o
                         (IF c.body # <<>> THEN <<BodyEvent(nextId, c.body)>> ELSE <<>>))
  /\ nextId' = nextId + 1
  /\ UNCHANGED <<isListening, listeners, handles, unsubscribed, now, fixedVars,
                 exchangeVars>>

\* later requests
LaterStart ==
  /\ nextId > 1
  /\ BackgroundStart

\* the records a viewer asks to replay: the first two of the process, unless
\* they are replayed requests themselves (whose own exchange is under way)
ReplayTargets ==
  ({1, 2} \cap DOMAIN logs) \ {replayed[i].id : i \in DOMAIN replayed}

\* a replay frame for record o is dispatched: replayRequest(message.log); the
\* viewer asks while the store holds a few records, or when it is full
Replay(o) ==
  /\ Len(replayed) < MaxReplays
  /\ o \in ReplayTargets
  /\ Len(orderedIds) <= 2 \/ Len(orderedIds) = MAX_LOGS
  /\ entryPoints["http.request"].kind = "interceptedRequest"
  /\ LET r == replayRequest(logs[o], nextId, now)
     IN  /\ StoreReceives(r.events)
         /\ nextId' = nextId + Len(r.requests)
         /\ issued' = issued \o [i \in 1..Len(r.requests) |->
                                   [replay |-> Len(replayed) + 1,
                                    request |-> r.requests[i]]]
         /\ replayed' = Append(replayed,
                               [original |-> o, log |-> logs[o],
                                id |-> IF r.requests = <<>> THEN 0 ELSE nextId])
  /\ UNCHANGED <<isListening, listeners, handles, unsubscribed, now, thrower,
                 sockets, installVars, ipcVars, normalized, furtherVars,
                 exchangeVars>>

\* the replayed request runs its course: response, completion or error
ReplayLifecycle ==
  \E i \in DOMAIN replayed,
     kind \in {"response-headers", "response-complete", "request-error"} :
    /\ replayed[i].id # 0
    /\ StoreReceives(<<RawEvent(kind, replayed[i].id)>>)
    /\ UNCHANGED <<isListening, listeners, handles, unsubscribed, nextId, now,
                   fixedVars, exchangeVars>>

(***************************************************************************)
(* SpecReplay: records are captured, some are replayed                     *)
(***************************************************************************)
NextReplay ==
  \/ Subscribe
  \/ Capture
  \/ LaterStart
  \/ \E o \in {1, 2} : Replay(o)
  \/ ReplayLifecycle

SpecReplay == Init /\ [][NextReplay]_vars

(***************************************************************************)
(* SpecBroadcast: one IPC server, viewers that come and go, a store that   *)
(* changes meanwhile                                                       *)
(***************************************************************************)
\* a store operation, while no viewer has been written MaxFrames frames
StoreOperation ==
  /\ \A v \in Viewers : Len(frames[v]) < MaxFrames
  /\ (FewStarts \/ LifecycleOf({"response-complete"}) \/ Clear)

NextBroadcast ==
  \/ StartIpcServer(Self)
  \/ ListenCallback(Self)
  \/ \E v \in Viewers : ViewerConnect(v) \/ ViewerClose(v)
  \/ StoreOperation
  \/ CloseBegin(Self)
  \/ CloseUnlink(Self)

SpecBroadcast == Init /\ [][NextBroadcast]_vars

(***************************************************************************)
(* IPC client (ipc.ts): connectToIpc                                       *)
(***************************************************************************)
\* the file is in os.tmpdir(): another program, or a write cut short, leaves
\* text that is not JSON, or a record without a port
ForeignWrite ==
  /\ \E c \in {Unparsable, [pid |-> Self, port |-> NoPort]} :
       ipcFile' = c
  /\ UNCHANGED <<storeVars, nextId, now, thrower, sockets, installVars, auxVars, conn,
                 wire, nSent, buffer, delivered, replays, client, procs,
                 exchangeVars, histVars>>

\* connectToIpc up to its return: without a usable record the error goes to
\* onError and is thrown; with one, a socket is created towards its port
connectToIpc(c, file, ps) ==
  LET info == readIpcInfo(file, ps)
      read == [c EXCEPT !.saw = file, !.sawAlive = isProcessAlive(ps, file.pid)]
  IN  IF info.pid = 0
      THEN [read EXCEPT !.state = "noInstance", !.onError = @ + 1,
                        !.thrown = TRUE]
      ELSE [read EXCEPT !.state = "connecting", !.target = info.port[2],
                        !.sockets = @ + 1]

\* a viewer process calls connectToIpc
ConnectToIpc(v) ==
  /\ client[v].state = "idle"
  /\ client' = [client EXCEPT ![v] = connectToIpc(@, ipcFile, procs)]
  /\ UNCHANGED <<storeVars, nextId, now, thrower, sockets, installVars, auxVars, conn,
                 wire, nSent, buffer, delivered, replays, procs, ipcFile,
                 exchangeVars, histVars>>

\* the socket's 'connect': the server at the port accepted; when it is the
\* server of process Self, its 'connection' handler runs
ConnectSucceeds(v) ==
  /\ client[v].state = "connecting"
  /\ procs[client[v].target].state = "listening"
  /\ client' = [client EXCEPT ![v].state = "connected"]
  /\ IF client[v].target = Self /\ conn[v] = "new"
     THEN /\ conn' = [conn EXCEPT ![v] = "open"]
          /\ LET c == connection(frames, sockets, v, Store)
             IN  /\ sockets' = c.sockets
                 /\ frames' = c.frames
     ELSE UNCHANGED <<conn, sockets, frames>>
  /\ UNCHANGED <<logs, orderedIds, isListening, listeners, handles, calls, lastOp,
                 unsubscribed, nextId, now, thrower, installVars, auxVars, wire, nSent,
                 buffer, delivered, replays, procs, ipcFile, exchangeVars,
                 histVars>>

\* the socket's 'error': nobody listens at the port any more; the error goes
\* to onError and nothing else is done
ConnectFails(v) ==
  /\ client[v].state = "connecting"
  /\ procs[client[v].target].state # "listening"
  /\ client' = [client EXCEPT ![v].state = "failed", ![v].onError = @ + 1]
  /\ UNCHANGED <<storeVars, nextId, now, thrower, sockets, installVars, auxVars, conn,
                 wire, nSent, buffer, delivered, replays, procs, ipcFile,
                 exchangeVars, histVars>>

(***************************************************************************)
(* SpecViewer: viewers looking for an instance while servers come and go   *)
(***************************************************************************)
\* the processes that run a server in SpecViewer
ServingPids == {Self, 2}

NextViewer ==
  \/ \E p \in ServingPids :
       \/ StartIpcServer(p)
       \/ ListenCallback(p)
       \/ CloseBegin(p)
       \/ CloseUnlink(p)
       \/ ProcessExit(p)
  \/ ForeignWrite
  \/ \E v \in Viewers : ConnectToIpc(v) \/ ConnectSucceeds(v) \/ ConnectFails(v)

SpecViewer == Init /\ [][NextViewer]_vars

(***************************************************************************)
(* Capacity claims (SpecStore)                                             *)
(***************************************************************************)
\* C1: in every reachable state the store holds at most MAX_LOGS records: the
\* id order list, the record map and getLogs() are each at most 50 long.
C1_SizeAtMostCap ==
  /\ Len(orderedIds) <= MAX_LOGS
  /\ Cardinality(DOMAIN logs) <= MAX_LOGS
  /\ Len(getLogs(Store)) <= MAX_LOGS

\* C1 witness: the store is full after more starts than the cap allows
C1_Witness_FullAfterEviction ==
  /\ Len(getLogs(Store)) = MAX_LOGS
  /\ Len(startOrder) > MAX_LOGS
  /\ lastEvicted # <<>>

\* position of an id in the arrival order
ArrivalPos(id) == CHOOSE i \in DOMAIN startOrder : startOrder[i] = id
\* the id of a set that arrived first
Earliest(S) == CHOOSE id \in S : \A other \in S : ArrivalPos(id) <= ArrivalPos(other)
\* the ids the store held just before the last request-start was applied
PresentBeforeLastStart ==
  (DOMAIN logs \cup {lastEvicted[i].id : i \in DOMAIN lastEvicted})
    \ {Last(startOrder)}

\* C2: a request-start over the cap removes exactly the record that arrived
\* earliest among those present, whatever its status, and nothing else; after
\* MAX_LOGS + 1 starts the first id is absent and the other MAX_LOGS are present.
C2_EvictsOldestOnly ==
  LET n == Len(startOrder)
      k == IF n < MAX_LOGS THEN n ELSE MAX_LOGS
  IN  /\ n > 0 =>
            IF Cardinality(PresentBeforeLastStart) >= MAX_LOGS
            THEN /\ Len(lastEvicted) = 1
                 /\ lastEvicted[1].id = Earliest(PresentBeforeLastStart)
            ELSE lastEvicted = <<>>
      /\ orderedIds = [i \in 1..k |-> startOrder[n + 1 - i]]
      /\ DOMAIN logs = Range(orderedIds)
      /\ n = MAX_LOGS + 1 =>
            /\ startOrder[1] \notin DOMAIN logs
            /\ \A i \in 2..n : startOrder[i] \in DOMAIN logs
            /\ Len(getLogs(Store)) = MAX_LOGS

\* C2 witness: the 51st start evicted the first request although it was no
\* longer PENDING
C2_Witness_EvictedNotPending ==
  /\ Len(startOrder) = MAX_LOGS + 1
  /\ Len(lastEvicted) = 1
  /\ lastEvicted[1].id = startOrder[1]
  /\ lastEvicted[1].status # Pending

(***************************************************************************)
(* Claims about one exchange                                               *)
(***************************************************************************)
\* the store holds a record for the exchange
Recorded == requestId \in DOMAIN logs

\* the kinds of a sequence of events
Kinds(evs) == [i \in DOMAIN evs |-> evs[i].kind]

IsPrefix(s, t) == Len(s) <= Len(t) /\ s = SubSeq(t, 1, Len(s))

\* C3: a record's status starts as PENDING and, once it is no longer PENDING,
\* never changes again (it changes exactly once), for any events the engine
\* emits for the request.
C3_StatusChangesOnce ==
  [][ /\ \A id \in DOMAIN logs' \ DOMAIN logs : logs'[id].status = Pending
      /\ \A id \in DOMAIN logs \cap DOMAIN logs' :
           logs[id].status # Pending => logs'[id].status = logs[id].status ]_vars

\* the two orders of events a request may show, with the optional request-body
\* and size-update
AllowedOrders ==
  LET B == {<<>>, <<"request-body">>}
      Z == {<<>>, <<"size-update">>}
  IN  {<<"request-start">> \o b \o <<"response-headers", "timing-update">> \o z
         \o <<"response-complete">> : b \in B, z \in Z} \cup
      {<<"request-start">> \o b \o <<"request-error">> : b \in B}

\* C4: the events emitted for one request id always form start, optional body,
\* headers, timing/size, complete, or start followed by error: at every moment
\* what was emitted so far is the beginning of one of these sequences.
C4_EventsInCausalOrder ==
  \E order \in AllowedOrders : IsPrefix(Kinds(emitted), order)

\* C5: every call of a patched entry point emits exactly one request-start,
\* first of all its events, carrying the id handed out for this call, and emits
\* it before the original implementation is invoked: an emit that does not
\* return leaves the original uninvoked.
C5_OneStartBeforeOriginal ==
  pc # "idle" =>
    /\ Len(SelectSeq(emitted, LAMBDA e : e.kind = "request-start")) = 1
    /\ emitted[1].kind = "request-start"
    /\ emitted[1].id = requestId
    /\ requestId = nextId - 1
    /\ \A i \in DOMAIN orderedIds : orderedIds[i] = requestId => i = 1
    /\ pc = "threw" => forwarded = <<>>
    /\ forwarded # <<>> => Len(emitted) >= 1

\* C5 witness: https.get emitted its request-start and reached the original
C5_Witness_GetStarted ==
  /\ entry = "https.get"
  /\ Len(forwarded) = 1
  /\ Kinds(emitted) = <<"request-start">>
  /\ thrower # "none"

\* C6: for every supported call shape the wrapper invokes the original exactly
\* once with the caller's url/options and its own callback, returns the request
\* the original returned, and runs the caller's callback exactly once per
\* response.
C6_TransparentDelegation ==
  (pc # "idle" /\ entry \in HttpEntries) =>
    /\ Len(forwarded) = 1
    /\ forwarded[1].first = callArgs.first
    /\ (forwarded[1].second = "options") = (callArgs.second = "options")
    /\ "wrappedCallback" \in {forwarded[1].second, forwarded[1].third}
    /\ (forwarded[1].third = "none") = (callArgs.second # "options")
    /\ callerResult = "ClientRequest"
    /\ callbackCalls = IF HasCallback(callArgs) /\ res # "none" THEN 1 ELSE 0

\* C6 witness: request(url, options, callback) got its response
C6_Witness_UrlOptionsCallback ==
  /\ entry = "https.request"
  /\ callArgs = [first |-> "URL", second |-> "options", third |-> "callback"]
  /\ res = "ended"
  /\ callbackCalls = 1

\* C7: a subscriber that throws while an event is emitted does not affect the
\* intercepted call: the original is invoked, the caller gets the original's
\* result or error, and no exception of the subscriber reaches the caller or
\* the event loop.
C7_SubscriberFailureIsolated ==
  /\ callerResult \notin {"exception", "rejected: subscriber's exception"}
  /\ ~uncaught
  /\ pc # "idle" => Len(forwarded) = 1
  /\ callerEnded => origEnded = 1

\* C8: the body reported in response-complete is the concatenation, in order
\* and each chunk once, of the chunks the response delivered, however the
\* caller consumes the response.
C8_BodyIsConcatenation ==
  \A i \in DOMAIN emitted :
    emitted[i].kind = "response-complete" => emitted[i].body = BodyOf(nDelivered)

\* what consumer of the given kind receives from the response when it is
\* not intercepted
Unwrapped(kind) ==
  LET all == [j \in 1..nDelivered |-> Chunk(j)]
      ended == IF res = "ended" THEN 1 ELSE 0
  IN  CASE kind = "on-data"   -> [chunks |-> all, ends |-> 0]
        [] kind = "once-data" -> [chunks |-> SubSeq(all, 1, IF nDelivered > 0 THEN 1 ELSE 0),
                                  ends |-> 0]
        [] kind = "on-end"    -> [chunks |-> <<>>, ends |-> ended]
        [] kind = "once-end"  -> [chunks |-> <<>>, ends |-> ended]
        [] kind = "pipe"      -> [chunks |-> all, ends |-> ended]

\* C9: the caller's data listeners, end listeners and pipe destination receive
\* every chunk and every end they would have received from the unwrapped
\* response: each chunk once per listener, in order, and the end once.
C9_ConsumersSeeEverything ==
  \A i \in DOMAIN consumers : seen[i] = Unwrapped(consumers[i])

\* a terminal event of the exchange was emitted
Terminal ==
  \E i \in DOMAIN emitted : emitted[i].kind \in {"response-complete", "request-error"}

\* C10: after response-complete or request-error was applied to a record, no
\* later event changes any field of that record.
C10_FrozenAfterTerminal ==
  [][ (Recorded /\ Terminal /\ requestId \in DOMAIN logs')
        => logs'[requestId] = logs[requestId] ]_vars

(***************************************************************************)
(* Listener claims (SpecNotify, SpecStore)                                 *)
(***************************************************************************)
\* the last store operation was the handling of one emitted event
OneEvent == lastOp.op = "emit" /\ Len(lastOp.events) = 1

\* the last store operation changed the store: a request-start, a lifecycle
\* event for an id the store knew, or clear()
Mutation ==
  \/ lastOp.op = "clear"
  \/ /\ OneEvent
     /\ isListening
     /\ \/ lastOp.events[1].kind = "request-start"
        \/ lastOp.events[1].id \in lastOp.before

\* C11: each store mutation calls every subscribed listener exactly once, in
\* subscription order, with the record list getLogs() returns after the
\* mutation; no listener is in the set twice, so none is notified twice for
\* one event however often subscribe() was called.
C11_EveryListenerOncePerMutation ==
  /\ \A i, j \in DOMAIN listeners : listeners[i] = listeners[j] => i = j
  /\ Mutation =>
       /\ Len(calls) = Len(listeners)
       /\ \A i \in DOMAIN calls :
            calls[i] = ListenerCall(listeners[i], getLogs(Store))

\* C11 witness: a lifecycle event changed a record while three listeners
\* were subscribed, the throwing one first
C11_Witness_ThreeNotified ==
  /\ OneEvent
  /\ lastOp.events[1].kind = "response-headers"
  /\ lastOp.events[1].id \in lastOp.before
  /\ Len(listeners) = 3
  /\ listeners[1] = "faulty"
  /\ Len(calls) = 3

\* C12: a lifecycle event whose id the store does not know (never inserted,
\* evicted, or cleared) leaves the map and the id list as they are, creates
\* no record and calls no listener.
C12_UnknownIdIsNoOp ==
  [][ ( /\ lastOp'.op = "emit"
        /\ Len(lastOp'.events) = 1
        /\ lastOp'.events[1].kind \in LifecycleKinds
        /\ lastOp'.events[1].id \notin lastOp'.before )
      => /\ logs' = logs
         /\ orderedIds' = orderedIds
         /\ calls' = <<>> ]_vars

\* C12 witness: an event arrived for the first request after a full store
\* had evicted it, with the dashboard subscribed
C12_Witness_EvictedId ==
  /\ OneEvent
  /\ lastOp.events[1].kind \in LifecycleKinds
  /\ lastOp.events[1].id \notin lastOp.before
  /\ Len(orderedIds) = MAX_LOGS
  /\ lastOp.events[1].id \in Range(startOrder)
  /\ listeners = <<"ui">>

\* C13: subscribe(listener) calls that listener, and only it, once with the
\* current snapshot; a listener whose unsubscribe handle was called (and that
\* was not subscribed again since) is called by no later store operation.
C13_SnapshotThenSilentAfterUnsubscribe ==
  /\ lastOp.op = "subscribe" =>
       calls = <<ListenerCall(lastOp.listener, getLogs(Store))>>
  /\ \A i \in DOMAIN calls : calls[i].listener \notin unsubscribed
  /\ \A l \in unsubscribed : l \notin Range(listeners)

\* C13 witness: a mutation notified the remaining listener after another
\* one had unsubscribed
C13_Witness_MutationAfterUnsubscribe ==
  /\ Mutation
  /\ lastOp.op = "emit"
  /\ unsubscribed = {"ui"}
  /\ listeners = <<"panel">>
  /\ Len(calls) = 1

\* C14: right after clear() the store holds no record (getLogs() is empty and
\* getLog(id) is undefined for every id) and every subscribed listener has
\* been called with the empty snapshot.
C14_ClearEmptiesAndNotifies ==
  lastOp.op = "clear" =>
    /\ getLogs(Store) = <<>>
    /\ orderedIds = <<>>
    /\ DOMAIN logs = {}
    /\ Len(calls) = Len(listeners)
    /\ \A i \in DOMAIN calls : calls[i] = ListenerCall(listeners[i], <<>>)

\* C14 witness: clear() of a store that held records, two listeners subscribed
C14_Witness_ClearedNonEmpty ==
  /\ lastOp.op = "clear"
  /\ lastOp.before # {}
  /\ Len(listeners) = 2

\* the sequence reversed
Reverse(q) == [i \in 1..Len(q) |-> q[Len(q) + 1 - i]]

\* the ids of getLogs(), in order
ListedIds == LET l == getLogs(Store) IN [i \in 1..Len(l) |-> l[i].id]

\* C15: getLogs() lists the records most recent first: the ids it lists are
\* the latest (at most MAX_LOGS) request-starts since the last clear(), in
\* reverse order of arrival, each once; lifecycle events, which leave the
\* arrival order alone, therefore never move a record.
C15_MostRecentFirst ==
  LET n == Len(startOrder)
      kept == IF n > MAX_LOGS THEN SubSeq(startOrder, n - MAX_LOGS + 1, n)
              ELSE startOrder
      listed == ListedIds
  IN  /\ listed = Reverse(kept)
      /\ \A i, j \in DOMAIN listed : listed[i] = listed[j] => i = j

\* C15 witness: response-complete was applied to the oldest of several records
C15_Witness_OldestCompleted ==
  /\ OneEvent
  /\ lastOp.events[1].kind = "response-complete"
  /\ Len(orderedIds) >= 3
  /\ Last(orderedIds) = lastOp.events[1].id
  /\ logs[lastOp.events[1].id].resBody # <<>>

(***************************************************************************)
(* Install claims (SpecInstall)                                            *)
(***************************************************************************)
\* no wrapper was saved as an original and no wrapper wraps a wrapper
NothingWrappedTwice ==
  \A n \in EntryNames :
    /\ originals[n].kind \notin WrapperKinds
    /\ entryPoints[n].kind = "interceptedRequest" =>
         entryPoints[n].of.kind \notin WrapperKinds

\* C16: startInterceptor() called while the interceptor is active leaves the
\* saved originals, the entry points and the active flag as they are, so no
\* wrapper is ever saved as an original or wrapped again; stopInterceptor()
\* called before any start leaves them as they are too.
C16_StartTwiceStopNeverAreNoOps ==
  [][ /\ (isIntercepting /\ installLog' = Append(installLog, "start"))
          => UNCHANGED <<isIntercepting, originals, entryPoints>>
      /\ ("start" \notin Range(installLog) /\ installLog' = Append(installLog, "stop"))
          => UNCHANGED <<isIntercepting, originals, entryPoints>>
      /\ NothingWrappedTwice' ]_vars

\* C16 witness: startInterceptor() was called twice in a row, fetch present
C16_Witness_StartedTwice ==
  /\ Len(installLog) >= 2
  /\ installLog[1] = "start"
  /\ installLog[2] = "start"
  /\ entryPoints["fetch"] = PatchedFetch
  /\ isIntercepting

\* C17: whenever the last call made was stopInterceptor(), the five entry
\* points are the functions that were in place before the first start, the
\* interceptor is not active, and stopInterceptor() would change nothing.
C17_StopRestoresEntryPoints ==
  (installLog # <<>> /\ Last(installLog) = "stop") =>
    /\ entryPoints = pristine
    /\ ~isInterceptorActive(InstallState)
    /\ stopInterceptor(InstallState) = InstallState

\* C17 witness: started and stopped twice over another library's fetch
C17_Witness_StoppedTwice ==
  /\ installLog = <<"start", "stop", "start", "stop">>
  /\ pristine["fetch"] = Foreign("fetch")
  /\ pristine["http.get"] = Native("http.get")

(***************************************************************************)
(* Discovery record claims (SpecDiscovery)                                 *)
(***************************************************************************)
\* C20: a server that closes removes the discovery record only when the
\* record is its own: whenever the unlink step of a process's close() removes
\* a record, that record carries the pid of this very process, whatever the
\* other processes wrote in between.
C20_ClosingServerRemovesOnlyItsOwn ==
  [][\A p \in Pids :
       (/\ procs[p].state = "closing"
        /\ procs'[p].state = "closed"
        /\ ipcFile # NoRecord
        /\ ipcFile' = NoRecord)
       => ipcFile.pid = p]_vars

(***************************************************************************)
(* Viewer frame claims (SpecBroadcast)                                     *)
(***************************************************************************)
UpdateFrame(st) == [type |-> "update", logs |-> getLogs(st)]

\* C18: what a viewer connection has been written is one init frame followed
\* by update frames only, and while it is connected its last frame shows the
\* store as it is now (the init frame shows the store at connection time).
\* Every store operation that notifies the listeners adds exactly one update
\* frame, carrying the store after the operation, to each connected viewer,
\* and nothing to the others.
C18_InitThenOneUpdatePerNotification ==
  [][/\ \A v \in Viewers :
          /\ frames'[v] # <<>> =>
               /\ frames'[v][1].type = "init"
               /\ \A i \in 2..Len(frames'[v]) : frames'[v][i].type = "update"
          /\ v \in Range(sockets') =>
               /\ frames'[v] # <<>>
               /\ Last(frames'[v]).logs = getLogs(Store')
     /\ StoreOperation =>
          \A v \in Viewers :
            frames'[v] = IF v \in Range(sockets) /\ calls' # <<>>
                         THEN Append(frames[v], UpdateFrame(Store'))
                         ELSE frames[v]]_vars

\* a viewer that connected to a non-empty store and has seen two updates
C18_Witness_InitThenTwoUpdates ==
  \E v \in Viewers :
    /\ v \in Range(sockets)
    /\ Len(frames[v]) = 3
    /\ frames[v][1].logs # <<>>
    /\ frames[v][2].logs # frames[v][1].logs
    /\ frames[v][3].logs # frames[v][2].logs

(***************************************************************************)
(* Inbound frame claims (SpecInbound)                                      *)
(***************************************************************************)
\* the complete lines of a stream, by the position of their newline
LineEnding(stream, i) ==
  LET before == {j \in 1..(i - 1) : stream[j] = NL}
      from   == IF before = {} THEN 1
                ELSE 1 + CHOOSE j \in before : \A k \in before : k <= j
  IN  SubSeq(stream, from, i - 1)

\* the well-formed replay frames among the complete lines of a stream
ReplayLines(stream) ==
  {i \in 1..Len(stream) :
     stream[i] = NL /\ Trim(LineEnding(stream, i)) \in ReplayTexts}

\* what follows the last newline of a stream
Unfinished(stream) ==
  LET ends == {i \in 1..Len(stream) : stream[i] = NL}
  IN  IF ends = {} THEN stream
      ELSE SubSeq(stream, 1 + (CHOOSE i \in ends : \A j \in ends : j <= i),
                  Len(stream))

\* C19: whatever a viewer has sent, the replays issued for it are exactly the
\* well-formed replay frames among the complete lines of the text received,
\* however the stream was cut into data events: a malformed or unknown frame issues no
\* replay and does not keep a later well-formed one from being processed.  The
\* connection stays open and in the broadcast set, and the handler's buffer
\* holds just the unfinished line.
C19_MalformedFramesAreDropped ==
  \A v \in Viewers :
    /\ replays[v] = Cardinality(ReplayLines(heard[v]))
    /\ buffer[v] = Unfinished(heard[v])
    /\ conn[v] = "open" => v \in Range(sockets)

\* a viewer whose malformed frame was followed by a replay frame that was
\* carried out, the viewer still in the broadcast set
C19_Witness_ReplayAfterMalformed ==
  \E v \in Viewers :
    /\ delivered[v] = Text("null") \o <<NL>> \o Text("replay") \o <<NL>>
    /\ replays[v] = 1
    /\ v \in Range(sockets)
    /\ Len(frames[v]) = 2

\* C21: the listen callback of a process never replaces a discovery record
\* that another live process owns: whenever server.listen's callback changes
\* the file, the record it replaces is absent, the process's own, or that of
\* a process that is gone.
C21_StartingServerKeepsForeignRecord ==
  [][\A p \in Pids :
       (/\ procs[p].state = "started"
        /\ procs'[p].state = "listening"
        /\ ipcFile' # ipcFile)
       => \/ ipcFile.pid = 0
          \/ ipcFile.pid = p
          \/ ~isProcessAlive(procs, ipcFile.pid)]_vars

(***************************************************************************)
(* Viewer connection claims (SpecViewer)                                   *)
(***************************************************************************)
\* C22: a connectToIpc call that found no discovery file, an unparsable one,
\* one without pid or port, or one whose pid is not a live process, has
\* reported the error once through onError, has thrown, and has opened no
\* socket; a call whose connection attempt failed has reported the error once
\* through onError; no call ever opens a second socket.
C22_NoInstanceIsReportedNotRetried ==
  \A v \in Viewers :
    LET c == client[v]
        unusable == c.saw.pid = 0 \/ c.saw.port = NoPort \/ ~c.sawAlive
    IN  c.state # "idle" =>
          /\ unusable => /\ c.state = "noInstance"
                         /\ c.onError = 1
                         /\ c.thrown
                         /\ c.sockets = 0
                         /\ conn[v] = "new"
          /\ c.state = "failed" => c.onError = 1 /\ ~c.thrown
          /\ c.sockets <= 1

\* one viewer found the record of a process that is gone, another one's
\* connection attempt failed
C22_Witness_StaleRecordAndRefused ==
  \E v, w \in Viewers :
    /\ client[v].state = "noInstance"
    /\ client[v].saw.pid \in Pids
    /\ client[v].saw.port # NoPort
    /\ client[w].state = "failed"

(***************************************************************************)
(* Replay claims (SpecReplay)                                              *)
(***************************************************************************)
\* the port a request to the parsed URL goes to
EffectivePort(urlObj) ==
  IF urlObj.port = "" THEN DefaultPortText(urlObj.protocol) ELSE urlObj.port

\* the request carries the record's method, URL, headers and body
SameRequest(req, log) ==
  LET urlObj == ParseUrl(log.request.url)
  IN  /\ urlObj.valid
      /\ req.options.method = log.request.method
      /\ req.protocol = urlObj.protocol
      /\ req.options.hostname = <<urlObj.hostname>>
      /\ req.options.port.text = EffectivePort(urlObj)
      /\ req.options.path = <<urlObj.pathname>> \o
                            (IF urlObj.search = "" THEN <<>> ELSE <<urlObj.search>>)
      /\ req.options.headers = log.request.headers
      /\ req.body = log.reqBody

\* the requests issued for the i-th replay
IssuedFor(i) == SelectSeq(issued, LAMBDA q : q.replay = i)

EndObserved ==
  \E i \in DOMAIN consumers : consumers[i] \in {"on-end", "once-end", "pipe"}

\* the events the step has added to those emitted for the exchange
NewlyEmitted == SubSeq(emitted', Len(emitted) + 1, Len(emitted'))

BodyEvents == SelectSeq(emitted, LAMBDA e : e.kind = "request-body")

\* C25: every chunk the caller passes to write() or end() reaches the original
\* write/end, in call order (the k-th chunk passed is the k-th forwarded), and
\* once the caller has called end() one request-body has been emitted whose
\* body is the concatenation, in call order, of all chunks written and the
\* chunk of end(); none is emitted before end(), and none at all when that
\* concatenation is empty.
C25_RequestBodyIsWhatWasWritten ==
  entry \in HttpEntries =>
    /\ \A k \in DOMAIN forwardedBody : forwardedBody[k] \in {Chunk(k), <<>>}
    /\ callerEnded => origEnded = 1
    /\ BodyEvents =
         IF callerEnded /\ BufferConcat(forwardedBody) # <<>>
         THEN <<BodyEvent(requestId, BufferConcat(forwardedBody))>>
         ELSE <<>>

\* C25 witness: a chunk was written, another passed to end(), and the
\* request-body reports both in this order
C25_Witness_WriteThenEndWithChunk ==
  /\ callerEnded
  /\ forwardedBody = <<Chunk(1), Chunk(2)>>
  /\ BodyEvents = <<BodyEvent(requestId, Chunk(1) \o Chunk(2))>>

\* the empty case of C25: only empty chunks were passed to write() and end(): all were
\* forwarded and no request-body was emitted
C25_Witness_OnlyEmptyChunks ==
  /\ callerEnded
  /\ forwardedBody = <<<<>>, <<>>>>
  /\ BodyEvents = <<>>

\* the request-error events emitted for the exchange
ErrorEvents == SelectSeq(emitted, LAMBDA e : e.kind = "request-error")

\* a request with a body was written and ended and failed before any response
FailedBeforeResponse ==
  /\ entry \in HttpEntries
  /\ pc = "failed"
  /\ res = "none"
  /\ callerEnded
  /\ BufferConcat(forwardedBody) # <<>>

Methods == {"", "get", "POST"}

\* the options objects that address target t with method m: hostname or
\* host, the port as a number or a string (or left out when it is the
\* default), the path (or none for "/")
OptionsFor(t, m) ==
  LET effective == IF t.port = "" THEN DefaultPortText(t.protocol) ELSE t.port
      ports == {PortNum(effective), PortStr(effective)} \cup
               (IF t.port = "" THEN {PortAbsent} ELSE {})
      paths == {PathOf(t)} \cup (IF PathOf(t) = <<"/">> THEN {<<>>} ELSE {})
  IN  {[NoOptions EXCEPT !.hostname = h[1], !.host = h[2], !.port = p,
                         !.path = q, !.method = m] :
         h \in {<< <<t.hostname>>, <<>> >>, << <<>>, <<t.hostname>> >>},
         p \in ports, q \in paths}

\* the options interceptedRequest works with for each way of calling
\* http.request / https.request for target t with method m: (url), (url,
\* options), (URL), (URL, options), (options)
HttpCalls(t, m) ==
  (IF m = ""
   THEN {urlOptions(ParseUrl(text), t.protocol) : text \in UrlTexts(t) \cup {Href(t)}}
   ELSE {}) \cup
  {spread(urlOptions(ParseUrl(text), t.protocol), [NoOptions EXCEPT !.method = m]) :
     text \in UrlTexts(t)} \cup
  OptionsFor(t, m)

\* the url text and method the fetch wrapper finds for each way of calling
\* fetch for target t with method m: fetch(string, init), fetch(URL, init),
\* fetch(Request), a Request holding the serialised URL and the normalised
\* method
FetchCalls(t, m) ==
  {[url |-> text, method |-> m] : text \in UrlTexts(t)} \cup
  {[url |-> Href(t), method |-> IF m = "" THEN "GET" ELSE toUpperCase(m)]}

\* the target and method of the calls made so far
SameTarget(t, m) ==
  IF normalized = <<>> THEN TRUE
  ELSE normalized[1].target = t /\ normalized[1].method = m

\* the others: everything but normalized
notNormalized == <<storeVars, histVars, nextId, now, thrower, sockets, installVars,
                   ipcVars, issued, replayed, furtherVars, exchangeVars>>

\* a call of http.request or https.request
NormalizeHttp ==
  \E t \in Targets, m \in Methods :
    \E options \in HttpCalls(t, m) :
      /\ Len(normalized) < MaxShapes
      /\ SameTarget(t, m)
      /\ normalized' = Append(normalized,
                              [target |-> t, method |-> m, entry |-> "request",
                               start |-> interceptedStart(options, t.protocol)])
      /\ UNCHANGED notNormalized

\* a call of fetch
NormalizeFetch ==
  \E t \in Targets, m \in Methods :
    \E call \in FetchCalls(t, m) :
      /\ Len(normalized) < MaxShapes
      /\ SameTarget(t, m)
      /\ normalized' = Append(normalized,
                              [target |-> t, method |-> m, entry |-> "fetch",
                               start |-> fetchStart(call.url, call.method, "")])
      /\ UNCHANGED notNormalized

NextNormalize == NormalizeHttp \/ NormalizeFetch

SpecNormalize == Init /\ [][NextNormalize]_vars

\* C27: the method, url, host and path of request-start are the same for the
\* same target whichever call shape or entry point addressed it: the method
\* upper-cased and GET when none was given, the host the target's host, the
\* path the target's path plus query string.
C27_SameStartWhateverShape ==
  \A i, j \in DOMAIN normalized :
    LET a == normalized[i].start
        b == normalized[j].start
        t == normalized[i].target
        m == normalized[i].method
    IN  /\ a.method = (IF m = "" THEN "GET" ELSE toUpperCase(m))
        /\ a.host[1] = t.hostname
        /\ a.path = PathOf(t)
        /\ a.method = b.method
        /\ a.url = b.url
        /\ a.host = b.host
        /\ a.path = b.path

(***************************************************************************)
(* Claims about what the caller waits for (Spec)                           *)
(***************************************************************************)
\* C28: interception never delays the caller: once the original has delivered
\* the response (the response event fired, the original fetch resolved), the
\* caller's response callback has run, or the awaited fetch has its Response;
\* neither waits for the body or for capture work.
C28_CallerNeverWaits ==
  /\ (entry \in HttpEntries /\ res # "none" /\ parseRequestArgs(callArgs).callback)
       => callbackCalls = 1
  /\ (entry = "fetch" /\ pc \in {"fetchBody", "complete"})
       => callerResult = "Response"

(***************************************************************************)
(* Claims about the fields of a record (Spec)                              *)
(***************************************************************************)
\* C29: a record's duration is 0 for as long as its status is PENDING, and
\* from the moment the status is terminal (a status code or ERROR) the
\* duration has its final value: no later step changes it.
C29_DurationFixedOnceTerminal ==
  [][ \A id \in DOMAIN logs \cap DOMAIN logs' :
        /\ logs[id].status = Pending => logs[id].duration = 0
        /\ logs[id].status # Pending => logs'[id].duration = logs[id].duration ]_vars

\* C30: a record has an error field only if its status is ERROR; a record
\* whose status is PENDING or a status code has none.
C30_ErrorOnlyWithErrorStatus ==
  \A id \in DOMAIN logs :
    logs[id].error # Absent => logs[id].status = ErrorStatus

(***************************************************************************)
(* Claims about the number of end events (SpecConsume)                     *)
(***************************************************************************)
\* the events of one kind emitted for the exchange
EventsOfKind(kind) == SelectSeq(emitted, LAMBDA e : e.kind = kind)

\* C31: for a request id the engine emits at most one timing-update, at most
\* one size-update and at most one response-complete, however many data or
\* end listeners the caller registers and whichever pathways it combines.
C31_EndEventsAtMostOnce ==
  \A kind \in {"timing-update", "size-update", "response-complete"} :
    Len(EventsOfKind(kind)) <= 1

\* C32: every intercepted request reaches a terminal event: once the response
\* body has been delivered to its end a response-complete has been emitted
\* (the end of the response is the last step of the exchange, so an event
\* missing then is never emitted), whichever way the caller consumes the
\* response, and once the transport has failed a request-error has been
\* emitted.
C32_EveryRequestReachesTerminalEvent ==
  /\ res = "ended" => EventsOfKind("response-complete") # <<>>
  /\ pc = "failed" => EventsOfKind("request-error") # <<>>


(***************************************************************************)
(* SpecInterleave: several intercepted calls in flight at a time.  Every    *)
(* call of the patched http.request runs the wrapper afresh, so requestId,  *)
(* startTime, timing, requestBodyChunks and responseChunks are variables of *)
(* that call's closure: closures maps the id to them.  Each call writes one *)
(* chunk at most and receives one chunk at most; the calls' steps           *)
(* interleave freely.                                                       *)
(***************************************************************************)
MaxExchanges == 2

\* the bytes of request x: every piece says whose it is
PieceOf(x, n) == [of |-> x, n |-> n]
\* the body the caller of request x writes, and the one its server sends:
\* x pieces, so that the sizes of different requests differ
PiecesOf(x) == [n \in 1..x |-> PieceOf(x, n)]
StatusOf(x) == 200 + x

\* the closure of the wrapper after request-start
NewClosure(t) ==
  [pc |-> "open", startTime |-> t,
   timing |-> [dnsEnd |-> 0, tcpEnd |-> 0, ttfbEnd |-> 0, downloadEnd |-> 0],
   requestBodyChunks |-> <<>>, responseChunks |-> <<>>,
   totalBytesReceived |-> 0]

\* a step of one call: its closure changes, its events reach the store.  The
\* clock is read as the calls are made: the calls start at different times
InterleavedStep(cs, evs) ==
  /\ closures' = cs
  /\ StoreReceives(evs)
  /\ UNCHANGED <<isListening, listeners, handles, unsubscribed, thrower, sockets,
                 installVars, ipcVars, normalized, issued, replayed, signals,
                 remote, heard, exchangeVars>>

\* the patched http.request is called: request-start, a new closure
OpenExchange ==
  /\ nextId <= MaxExchanges
  /\ InterleavedStep((nextId :> NewClosure(now)) @@ closures,
                     <<StartEvent(nextId, now, "http")>>)
  /\ nextId' = nextId + 1
  /\ now' = now + 1

\* clientRequest.write(chunk) of call x
ExchangeWrite ==
  \E x \in DOMAIN closures :
    /\ closures[x].pc = "open"
    /\ closures[x].requestBodyChunks = <<>>
    /\ InterleavedStep(
         [closures EXCEPT ![x].requestBodyChunks = capture(@, PiecesOf(x))],
         <<>>)
    /\ UNCHANGED <<nextId, now>>

\* clientRequest.end() of call x
ExchangeEnd ==
  \E x \in DOMAIN closures :
    /\ closures[x].pc = "open"
    /\ InterleavedStep([closures EXCEPT ![x].pc = "sent"],
                       endEvents(x, closures[x].requestBodyChunks))
    /\ UNCHANGED <<nextId, now>>

\* 'response' of call x: ttfbEnd is set, wrappedCallback emits the headers
ExchangeResponse ==
  \E x \in DOMAIN closures :
    /\ closures[x].pc = "sent"
    /\ InterleavedStep([closures EXCEPT ![x].pc = "headers",
                                        ![x].timing.ttfbEnd = now],
                       <<HeadersEvent(x, StatusOf(x))>>)
    /\ UNCHANGED <<nextId, now>>

\* 'data' of the response of call x, the caller listening with res.on
ExchangeData ==
  \E x \in DOMAIN closures :
    /\ closures[x].pc = "headers"
    /\ closures[x].responseChunks = <<>>
    /\ InterleavedStep(
         [closures EXCEPT ![x].responseChunks = Append(@, PiecesOf(x)),
                          ![x].totalBytesReceived = @ + Len(PiecesOf(x))],
         <<>>)
    /\ UNCHANGED <<nextId, now>>

\* 'end' of the response of call x, the caller listening with res.on
ExchangeFinish ==
  \E x \in DOMAIN closures :
    LET c == closures[x]
        body == stringifyBody(c.responseChunks)
        t == [c.timing EXCEPT !.downloadEnd = now]
    IN  /\ c.pc = "headers"
        /\ InterleavedStep(
             [closures EXCEPT ![x].pc = "done", ![x].timing = t],
             <<TimingBreakdownEvent(x, t, c.startTime, now),
               SizeEvent(x, Or(0, c.totalBytesReceived), Len(body), "null"),
               CompleteEvent(x, body, now - c.startTime)>>)
        /\ UNCHANGED <<nextId, now>>

\* 'error' of call x
ExchangeError ==
  \E x \in DOMAIN closures :
    /\ closures[x].pc \in {"open", "sent", "headers"}
    /\ InterleavedStep([closures EXCEPT ![x].pc = "failed"],
                       <<ErrorEvent(x, "E", now - closures[x].startTime)>>)
    /\ UNCHANGED <<nextId, now>>

NextInterleave ==
  \/ Subscribe
  \/ OpenExchange
  \/ ExchangeWrite
  \/ ExchangeEnd
  \/ ExchangeResponse
  \/ ExchangeData
  \/ ExchangeFinish
  \/ ExchangeError

SpecInterleave == Init /\ [][NextInterleave]_vars

\* the id the events of the last emission carry
EventsCarry(x) ==
  /\ lastOp'.op = "emit"
  /\ lastOp'.events # <<>>
  /\ \A i \in DOMAIN lastOp'.events : lastOp'.events[i].id = x

UpdateEmitted(x) ==
  /\ EventsCarry(x)
  /\ \A i \in DOMAIN lastOp'.events : lastOp'.events[i].kind # "request-start"

\* what record y holds was captured by the closure of call y
OwnData(y) ==
  LET log == logs[y]
      c == closures[y]
  IN  /\ \A i \in DOMAIN log.reqBody : log.reqBody[i].of = y
      /\ \A i \in DOMAIN log.resBody : log.resBody[i].of = y
      /\ log.startTime = c.startTime
      /\ log.status \in {Pending, ErrorStatus, Code(StatusOf(y))}
      /\ log.timing # Absent =>
           /\ log.timing[1].total = c.timing.downloadEnd - c.startTime
           /\ log.timing[1].ttfb = c.timing.ttfbEnd - c.startTime
      /\ log.size # Absent =>
           /\ log.size[1].transferred = c.totalBytesReceived
           /\ log.size[1].resource \in {0, y}
      /\ log.duration # 0 => log.duration + c.startTime <= now

\* C33: with several requests in flight and their events interleaved in any
\* order, an update event carrying id X leaves every other record's fields and
\* the order of the records as they were, request-start for X adds X and leaves
\* the other records' fields alone, and the body, status, timing and size a
\* record holds are those its own call captured
C33_EventsTouchOnlyTheirOwnRecord ==
  [][\A x \in 1..MaxExchanges + 1 :
       /\ EventsCarry(x) =>
            /\ \A y \in DOMAIN logs \ {x} : y \in DOMAIN logs' /\ logs'[y] = logs[y]
            /\ \A y \in DOMAIN logs' : OwnData(y)'
       /\ UpdateEmitted(x) => orderedIds' = orderedIds /\ DOMAIN logs' = DOMAIN logs
    ]_vars

\* two records in flight, the older one updated after the newer one was started
C33_Witness_TwoInFlightBothUpdated ==
  /\ {1, 2} \subseteq DOMAIN logs
  /\ logs[1].resBody # <<>> /\ logs[2].reqBody # <<>>
  /\ logs[2].status = Code(StatusOf(2))
  /\ closures[1].pc = "done" /\ closures[2].pc = "headers"


(***************************************************************************)
(* SpecFaulty: listeners that throw, on the store and on a viewer's         *)
(* RemoteStore.  The response of the first request ends, which emits        *)
(* timing-update, size-update and response-complete one after the other.    *)
(***************************************************************************)
\* the emits of one handler of the engine, one after the other: each runs the
\* store's handler, and with it notifyListeners.  The loop over the listeners
\* is left before its end only by an exception, which leaves the handler and
\* emit() and ends the engine's handler: the events after it are not emitted
RECURSIVE emitEach(_, _, _, _)
emitEach(st, listening, ls, evs) ==
  IF evs = <<>> THEN [store |-> st, calls |-> <<>>, returned |-> TRUE]
  ELSE LET cs == CallsFor(st, listening, ls, Head(evs))
           after == Deliver(st, listening, Head(evs))
       IN  IF listening /\ Notified(st, Head(evs)) /\ Len(cs) < Len(ls)
           THEN [store |-> after, calls |-> cs, returned |-> FALSE]
           ELSE LET rest == emitEach(after, listening, ls, Tail(evs))
                IN  [store |-> rest.store, calls |-> cs \o rest.calls,
                     returned |-> rest.returned]

\* 'end' of the response of the first request, the caller listening with
\* res.on('end')
EndEmission ==
  \E id \in EventTargets :
    LET evs == <<RawEvent("timing-update", id), RawEvent("size-update", id),
                 RawEvent("response-complete", id)>>
        r == emitEach(Store, isListening, listeners, evs)
    IN  /\ StoreBecomes(r.store)
        /\ ListenersCalled(r.calls)
        /\ lastOp' = [returned |-> r.returned] @@ Op("emit", "none", evs)
        /\ UNCHANGED <<isListening, listeners, handles, unsubscribed, nextId, now,
                       fixedVars, exchangeVars, histVars>>

\* RemoteStore.subscribe
RemoteSubscribe ==
  \E l \in StoreListeners :
    /\ remote' = [remote EXCEPT
                    !["v1"].listeners = SetAdd(@, l),
                    !["v1"].calls = <<ListenerCall(l, remote["v1"].logs)>>]
    /\ UNCHANGED <<storeVars, histVars, nextId, now, thrower, sockets,
                   installVars, ipcVars, normalized, issued, replayed, closures,
                   signals, heard, exchangeVars>>

\* RemoteStore.setLogs: every listener is called, whatever the ones before
\* it did
setLogs(rs, newLogs) ==
  [rs EXCEPT !.logs = newLogs,
             !.calls = [i \in 1..Len(rs.listeners) |->
                          ListenerCall(rs.listeners[i], newLogs)]]

\* onLogs of an update frame with the store's records, in a viewer
RemoteSetLogs ==
  /\ remote["v1"].logs # getLogs(Store)
  /\ remote' = [remote EXCEPT !["v1"] = setLogs(@, getLogs(Store))]
  /\ UNCHANGED <<storeVars, histVars, nextId, now, thrower, sockets,
                 installVars, ipcVars, normalized, issued, replayed, closures,
                 signals, heard, exchangeVars>>

NextFaulty ==
  \/ SubscribeAny
  \/ FewStarts
  \/ EndEmission
  \/ RemoteSubscribe
  \/ RemoteSetLogs

SpecFaulty == Init /\ [][NextFaulty]_vars

\* the calls made when every listener of ls is called once per event of evs
\* that the store notifies of, with the records after that event
RECURSIVE EveryListenerPerEvent(_, _, _)
EveryListenerPerEvent(st, ls, evs) ==
  IF evs = <<>> THEN <<>>
  ELSE (IF Notified(st, Head(evs))
        THEN [i \in 1..Len(ls) |->
                ListenerCall(ls[i], getLogs(StoreHandle(st, Head(evs))))]
        ELSE <<>>)
       \o EveryListenerPerEvent(StoreHandle(st, Head(evs)), ls, Tail(evs))

\* C34: a listener that throws while it is notified changes nothing: the
\* emission returns, every event of it reaches the store, whose records are
\* what the handlers alone make them, and every listener, those after the
\* throwing one included, is called once per event with the records after
\* that event; RemoteStore.setLogs likewise calls every listener with the new
\* list
C34_ThrowingListenerIsIsolated ==
  [][ /\ ("returned" \in DOMAIN lastOp' /\ isListening /\ storeVars' # storeVars) =>
           /\ lastOp'.returned
           /\ Store' = DeliverAll(Store, TRUE, lastOp'.events)
           /\ calls' = EveryListenerPerEvent(Store, listeners, lastOp'.events)
      /\ remote'["v1"].logs # remote["v1"].logs =>
           /\ Len(remote'["v1"].calls) = Len(remote["v1"].listeners)
           /\ \A i \in DOMAIN remote'["v1"].calls :
                remote'["v1"].calls[i] =
                  ListenerCall(remote["v1"].listeners[i], remote'["v1"].logs)
    ]_vars

\* the three events of an end were handled for a stored record with the
\* throwing listener subscribed before another one, and a RemoteStore with the
\* throwing listener first was given its records
C34_Witness_ThrowerBeforeOthers ==
  /\ "returned" \in DOMAIN lastOp
  /\ Len(listeners) >= 2 /\ listeners[1] = "faulty"
  /\ 1 \in DOMAIN logs /\ logs[1].resBody # <<>>
  /\ Len(calls) = 3 * Len(listeners)
  /\ Len(remote["v1"].listeners) >= 2 /\ remote["v1"].listeners[1] = "faulty"
  /\ remote["v1"].logs # <<>>
  /\ Len(remote["v1"].calls) = Len(remote["v1"].listeners)


(***************************************************************************)
(* SpecSignals: one exchange and the events of its socket.  The engine's    *)
(* 'socket' listener sees a fresh socket, whose lookup and connect events   *)
(* (none, one or both: no lookup for an IP address or a cached answer) set  *)
(* dnsEnd and tcpEnd, or a connected keep-alive socket, for which both are  *)
(* set to startTime and no event follows.                                   *)
(***************************************************************************)
\* the variables a socket event leaves alone
notSignals ==
  <<storeVars, histVars, nextId, thrower, sockets, installVars, ipcVars,
    normalized, issued, replayed, closures, remote, heard, pc, entry,
    callArgs,
    requestId, startTime, requestBodyChunks, responseChunks,
    totalBytesReceived, callerEnded, res, resListeners, nDelivered, forwarded,
    forwardedBody, origEnded, callerResult, callbackCalls, consumers, seen,
    uncaught, emitted>>

\* no response yet, and the socket is not a keep-alive one
AwaitingSocket ==
  /\ pc = "open"
  /\ entry \in HttpEntries
  /\ res = "none"
  /\ "keep-alive" \notin signals

\* socket.on("lookup")
SocketLookup ==
  /\ AwaitingSocket
  /\ signals \cap {"lookup", "connect"} = {}
  /\ now' = now + 1
  /\ timing' = [timing EXCEPT !.dnsEnd = now + 1]
  /\ signals' = signals \cup {"lookup"}
  /\ UNCHANGED notSignals

\* socket.on("connect")
SocketConnect ==
  /\ AwaitingSocket
  /\ "connect" \notin signals
  /\ now' = now + 1
  /\ timing' = [timing EXCEPT !.tcpEnd = now + 1]
  /\ signals' = signals \cup {"connect"}
  /\ UNCHANGED notSignals

\* clientRequest.on("socket") with socket.connecting === false
SocketKeepAlive ==
  /\ AwaitingSocket
  /\ signals = {}
  /\ timing' = [timing EXCEPT !.dnsEnd = startTime, !.tcpEnd = startTime]
  /\ signals' = {"keep-alive"}
  /\ UNCHANGED <<notSignals, now>>

NextSignals ==
  \/ Subscribe
  \/ CallGet \/ TransportError
  \/ SocketLookup \/ SocketConnect \/ SocketKeepAlive
  \/ ResponseSimple \/ Data \/ End
  \/ CallFetch \/ FetchResolve \/ FetchBodyRead

SpecSignals == Init /\ [][NextSignals]_vars

\* the response has ended with a listener or pipe of the caller waiting for it
EndHandled ==
  /\ res = "ended"
  /\ \E i \in DOMAIN resListeners : resListeners[i].event = "end"

\* C35: in every timing-update a phase whose signal was not observed is 0 (dns
\* without lookup, tcp without connect, ttfb without a first byte, which is
\* so for fetch), and when the response has ended, timing-update and
\* response-complete have been emitted whatever signals were observed
C35_UnobservedPhaseIsZero ==
  LET timings == EventsOfKind("timing-update")
  IN  /\ \A i \in DOMAIN timings :
            /\ "lookup" \notin signals => timings[i].dns = 0
            /\ "connect" \notin signals => timings[i].tcp = 0
            /\ timing.ttfbEnd = 0 => timings[i].ttfb = 0
      /\ EndHandled =>
            /\ timings # <<>>
            /\ EventsOfKind("response-complete") # <<>>

\* the response of a request by IP address ended: connect was observed, lookup
\* was not
C35_Witness_ConnectWithoutLookup ==
  /\ EndHandled
  /\ signals = {"connect"}
  /\ EventsOfKind("timing-update") # <<>>
  /\ EventsOfKind("timing-update")[1].tcp > 0

\* C36: in every timing-update of an http/https request the four phases add
\* up to total, whatever signals were observed, and with the timestamps in
\* lifecycle order none of them is negative
C36_PhasesAddUpToTotal ==
  LET timings == EventsOfKind("timing-update")
      t == timing
      inOrder == /\ (t.dnsEnd # 0 => startTime <= t.dnsEnd)
                 /\ (t.tcpEnd # 0 => Or(t.dnsEnd, startTime) <= t.tcpEnd)
                 /\ (t.ttfbEnd # 0 =>
                       Or(t.tcpEnd, Or(t.dnsEnd, startTime)) <= t.ttfbEnd)
                 /\ Or(t.ttfbEnd, Or(t.tcpEnd, Or(t.dnsEnd, startTime)))
                      <= t.downloadEnd
  IN  entry \in HttpEntries =>
        \A i \in DOMAIN timings :
          LET e == timings[i]
          IN  /\ e.dns + e.tcp + e.ttfb + e.download = e.total
              /\ inOrder => e.dns >= 0 /\ e.tcp >= 0 /\ e.ttfb >= 0 /\ e.download >= 0

\* lookup, connect and first byte were observed at different times and the
\* response ended later still: all four phases are positive
C36_Witness_AllPhasesPositive ==
  /\ EndHandled
  /\ signals = {"lookup", "connect"}
  /\ LET timings == EventsOfKind("timing-update")
     IN  /\ timings # <<>>
         /\ timings[1].dns > 0 /\ timings[1].tcp > 0
         /\ timings[1].ttfb > 0 /\ timings[1].download > 0


\* C37: the store records from its first subscribe() on.  Before it, no event
\* changes the store or calls a listener; a request that has started and is
\* not in the store (started before the first subscribe, evicted or cleared)
\* never enters it, whatever events carry its id later; and once attached the
\* store stays attached: every later request-start is recorded at the head,
\* also with no listener left.
C37_RecordsFromFirstSubscribeOn ==
  [][ /\ ~isListening => DOMAIN logs = {} /\ orderedIds = <<>>
      /\ (~isListening /\ lastOp'.op = "emit") => logs' = logs /\ calls' = <<>>
      /\ \A id \in 1..(nextId - 1) : id \notin DOMAIN logs => id \notin DOMAIN logs'
      /\ isListening => isListening'
      /\ (isListening /\ nextId' = nextId + 1) =>
           orderedIds' # <<>> /\ orderedIds'[1] = nextId /\ nextId \in DOMAIN logs'
    ]_vars

\* the first request started before the first subscribe(); the only listener
\* has unsubscribed since, the second request was recorded after that, and an
\* event of the first has just arrived
C37_Witness_EarlyRequestLateEvent ==
  /\ isListening
  /\ listeners = <<>>
  /\ startOrder = <<2>>
  /\ DOMAIN logs = {2}
  /\ OneEvent
  /\ lastOp.events[1].id = 1
  /\ lastOp.events[1].kind = "response-complete"
  /\ lastOp.before = {2}


(***************************************************************************)
(* Claims about the record a replay adds (SpecReplay)                      *)
(***************************************************************************)
\* the step has dispatched a replay
ReplayDispatched == Len(replayed') = Len(replayed) + 1

\* the step has added one record under the fresh id nextId at the head of the
\* store, pending, with the request body of the record replayed; a full store
\* has lost its oldest record for it, and no other
ReplayInserted ==
  LET id == nextId
      full == Len(orderedIds) = MAX_LOGS
      o == replayed'[Len(replayed')].original
  IN  /\ id \notin DOMAIN logs
      /\ id \notin {replayed[i].id : i \in DOMAIN replayed}
      /\ nextId' = nextId + 1
      /\ DOMAIN logs' \ DOMAIN logs = {id}
      /\ orderedIds' = <<id>> \o (IF full THEN Front(orderedIds) ELSE orderedIds)
      /\ lastEvicted' = IF full THEN <<logs[Last(orderedIds)]>> ELSE <<>>
      /\ \A y \in DOMAIN logs' \ {id} : logs'[y] = logs[y]
      /\ logs'[id].status = Pending
      /\ logs'[id].reqBody = logs[o].reqBody
      /\ logs'[id].request.method = logs[o].request.method

\* the events of the replayed request reach its record as those of any request
ReplayFollowsLifecycle ==
  \A i \in DOMAIN replayed :
    LET id == replayed[i].id
    IN  (id \in DOMAIN logs /\ lastOp'.op = "emit" /\ Len(lastOp'.events) = 1
           /\ lastOp'.events[1].id = id /\ storeVars' # storeVars) =>
          /\ id \in DOMAIN logs'
          /\ orderedIds' = orderedIds
          /\ lastOp'.events[1].kind = "response-headers" =>
               logs'[id].status = Code(lastOp'.events[1].statusCode)
          /\ lastOp'.events[1].kind = "response-complete" =>
               logs'[id].resBody = lastOp'.events[1].body
          /\ lastOp'.events[1].kind = "request-error" =>
               logs'[id].status = ErrorStatus

\* C38: with the interceptor active, every replay adds exactly one new record
\* with a fresh id at the head of the store, which follows the normal
\* lifecycle; at the cap the insertion evicts the oldest record, which may be
\* the record replayed.
C38_ReplayAddsOneRecordAtHead ==
  [][ /\ ReplayDispatched => ReplayInserted
      /\ ReplayFollowsLifecycle ]_vars

\* C38 as amended: the same for the replay of a record whose URL is an
\* absolute URL that new URL() accepts; the replay of any other record adds
\* no record and leaves the store as it is.
C38_ReplayOfAbsoluteUrlAddsOneRecordAtHead ==
  [][ /\ ReplayDispatched =>
           LET o == replayed'[Len(replayed')].original
           IN  IF ParseUrl(logs[o].request.url).valid
               THEN ReplayInserted
               ELSE logs' = logs /\ orderedIds' = orderedIds /\ nextId' = nextId
      /\ ReplayFollowsLifecycle ]_vars

\* the oldest record of a full store was replayed: the replay's record is at
\* the head and the record replayed is gone
C38_Witness_ReplayEvictsOriginal ==
  /\ Len(orderedIds) = MAX_LOGS
  /\ replayed # <<>>
  /\ replayed[1].id # 0
  /\ orderedIds[1] = replayed[1].id
  /\ replayed[1].original \notin DOMAIN logs
  /\ lastEvicted = <<replayed[1].log>>


(***************************************************************************)
(* SpecFrames: well-behaved viewers send replay frames, for records in      *)
(* ASCII and for records with a character outside it, and the socket hands  *)
(* the bytes to the server's data handler in chunks cut anywhere            *)
(***************************************************************************)
\* encodeMessage of the two replay frames
FrameUnits == {Text("replay") \o <<NL>>, WideReplay \o <<NL>>}

\* a viewer writes a replay frame to its socket
ViewerSendFrame(v) ==
  /\ conn[v] = "open"
  /\ nSent < MaxInbound
  /\ nSent' = nSent + 1
  /\ \E u \in FrameUnits : wire' = [wire EXCEPT ![v] = @ \o u]
  /\ UNCHANGED <<storeVars, nextId, now, thrower, sockets, installVars, auxVars, conn,
                 buffer, delivered, replays, client, procs, ipcFile, exchangeVars,
                 histVars>>

NextFrames ==
  \/ StartIpcServer(Self)
  \/ ListenCallback(Self)
  \/ \E v \in Viewers : ViewerConnect(v) \/ ViewerSendFrame(v) \/ SocketData(v)

SpecFrames == Init /\ [][NextFrames]_vars

\* the lines of a text that are complete, in order
CompleteLines(text) ==
  LET ends == {i \in 1..Len(text) : text[i] = NL}
      n == Cardinality(ends)
      nth(k) == CHOOSE i \in ends : Cardinality({j \in ends : j <= i}) = k
  IN  [k \in 1..n |-> LineEnding(text, nth(k))]

\* C40: the frames the data handler recovers do not depend on how the byte
\* stream was cut into chunks: the text it has taken in is the text of the
\* bytes received so far (a character whose bytes have not all arrived is not
\* text yet), so every frame sent is handled once, in order, as it was sent,
\* and the buffer holds just the unfinished last line.
C40_FramesIndependentOfChunking ==
  \A v \in Viewers :
    /\ heard[v] = Decode(delivered[v])
    /\ buffer[v] = Unfinished(Decode(delivered[v]))
    /\ replays[v] = Len(CompleteLines(Decode(delivered[v])))
    /\ \A i \in DOMAIN CompleteLines(heard[v]) :
         CompleteLines(heard[v])[i] \in {Text("replay"), toString(WideReplay)}


(***************************************************************************)
(* SpecRemote: the IPC server broadcasts, and the socket of the viewer v1   *)
(* hands the bytes to the viewer's data handler in chunks cut anywhere; the *)
(* handler hands the record lists to RemoteStore.setLogs.  The response     *)
(* bodies of this specification hold a character outside ASCII.             *)
(***************************************************************************)
\* encodeMessage of the i-th frame written to a socket, as bytes: the JSON
\* text, with the two bytes of the character when a record has a body
encodeMessage(i, frame) ==
  <<<<"frame", i>>>> \o
  (IF \E k \in DOMAIN frame.logs : frame.logs[k].resBody # <<>>
   THEN <<Lead, Cont>> ELSE <<>>) \o
  <<NL>>

\* everything written to a socket so far
RECURSIVE Written(_, _)
Written(fr, i) ==
  IF i > Len(fr) THEN <<>> ELSE encodeMessage(i, fr[i]) \o Written(fr, i + 1)

\* the records of a frame whose text came with U+FFFD in place of the
\* character (JSON.parse accepts the text)
Garbled(list) ==
  [k \in DOMAIN list |->
     [list[k] EXCEPT !.resBody = IF @ = <<>> THEN @ ELSE <<0>>]]

\* JSON.parse(line) of a line of the viewer's buffer, the frames written to
\* its socket being fr
parseFrame(line, fr) ==
  LET frame == fr[line[1][2]]
  IN  IF Repl \in Range(line) THEN [frame EXCEPT !.logs = Garbled(@)] ELSE frame

\* the while loop of the viewer's data handler: onLogs(message.logs) for each
\* complete line that is an init or update frame
RECURSIVE clientLines(_, _, _)
clientLines(rs, buf, fr) ==
  LET newlines == {i \in 1..Len(buf) : buf[i] = NL}
  IN  IF newlines = {} THEN [rs EXCEPT !.buffer = buf]
      ELSE LET index == CHOOSE i \in newlines : \A j \in newlines : i <= j
               line  == Trim(SubSeq(buf, 1, index - 1))
               rest  == SubSeq(buf, index + 1, Len(buf))
               message == parseFrame(line, fr)
           IN  IF line # <<>> /\ message.type \in {"init", "update"}
               THEN clientLines([setLogs(rs, message.logs) EXCEPT
                                   !.handled = Append(@, message.logs)],
                                rest, fr)
               ELSE clientLines(rs, rest, fr)

\* a 'data' event of the viewer's socket, carrying any part of what the
\* server has written and has not arrived yet
ClientData ==
  LET v == "v1"
      out == Written(frames[v], 1)
  IN  /\ conn[v] = "open"
      /\ \E n \in 1..(Len(out) - remote[v].arrived) :
           LET data == SubSeq(out, remote[v].arrived + 1, remote[v].arrived + n)
           IN  remote' = [remote EXCEPT ![v] =
                 clientLines([@ EXCEPT !.arrived = @ + n],
                             remote[v].buffer \o toString(data), frames[v])]
      /\ UNCHANGED <<storeVars, histVars, nextId, now, thrower, sockets,
                     installVars, ipcVars, normalized, issued, replayed,
                     closures, signals, heard, exchangeVars>>

NextRemote ==
  \/ StartIpcServer(Self)
  \/ ListenCallback(Self)
  \/ \E v \in Viewers : ViewerConnect(v)
  \/ StoreOperation
  \/ ClientData

SpecRemote == Init /\ [][NextRemote]_vars

\* the number of frames whose bytes have all arrived at the viewer
FramesArrived(v) ==
  Cardinality({i \in 1..remote[v].arrived : Written(frames[v], 1)[i] = NL})

\* C39: the RemoteStore of a connected viewer holds the record list of the
\* last frame it has received in full; when everything written to its socket
\* has arrived that is the list of the last frame written, which is
\* getLogs() of the server's store as of its last notification; and a
\* notification writes the same update frame to every viewer connected
C39_RemoteStoreMirrorsLastFrame ==
  [][ LET v == "v1"
          n == FramesArrived(v)'
      IN  /\ remote'[v].logs = IF n = 0 THEN <<>> ELSE frames'[v][n].logs
          /\ (conn'[v] = "open" /\ remote'[v].arrived = Len(Written(frames'[v], 1))) =>
               remote'[v].logs = getLogs(Store')
          /\ \A a, b \in Range(sockets) :
               /\ Len(frames'[a]) - Len(frames[a]) = Len(frames'[b]) - Len(frames[b])
               /\ SubSeq(frames'[a], Len(frames[a]) + 1, Len(frames'[a]))
                    = SubSeq(frames'[b], Len(frames[b]) + 1, Len(frames'[b]))
    ]_vars

====
